---- MODULE Spec2Model ----
(***************************************************************************)
(* Claim de-duplication and registry of the marine-claims pipeline.        *)
(*                                                                         *)
(* Python values are modelled as tagged records so that values of          *)
(* different Python types can be compared: a str is a sequence of          *)
(* one-character strings, None is PyNone, numbers carry their magnitude.   *)
(* A Python dict is a function whose DOMAIN is its set of keys.            *)
(***************************************************************************)
EXTENDS Integers, Sequences, FiniteSets, TLC

(***************************************************************************)
(* Bounds of the model.                                                    *)
(***************************************************************************)
MaxClock == 3

(***************************************************************************)
(* Python values.                                                          *)
(***************************************************************************)
PyStr(s) == [ty |-> "str", s |-> s, n |-> 0]

PyNone == [ty |-> "none", s |-> <<>>, n |-> 0]

PyInt(n) == [ty |-> "int", s |-> <<>>, n |-> n]

PyFloat(n) == [ty |-> "float", s |-> <<>>, n |-> n]

\* a list, which cannot be hashed
PyList == [ty |-> "list", s |-> <<>>, n |-> 0]

\* bool(v): the truth value Python gives a value in `if part`
Truthy(v) ==
  CASE v.ty = "str" -> v.s # <<>>
    [] v.ty = "none" -> FALSE
    [] OTHER -> v.n # 0

Digits == <<"0", "1", "2", "3", "4", "5", "6", "7", "8", "9">>

RECURSIVE IntToStr(_)
\* str(n) of a non-negative int: its decimal digits
IntToStr(n) ==
  IF n < 10 THEN <<Digits[n + 1]>>
  ELSE IntToStr(n \div 10) \o <<Digits[(n % 10) + 1]>>

\* str(v) as Python computes it for str, None, int and whole-valued float
ToStr(v) ==
  CASE v.ty = "str" -> v.s
    [] v.ty = "none" -> <<"N", "o", "n", "e">>
    [] v.ty = "int" -> IntToStr(v.n)
    [] OTHER -> IntToStr(v.n) \o <<".", "0">>

UpperChars ==
  <<"A", "B", "C", "D", "E", "F", "G", "H", "I", "J", "K", "L", "M",
    "N", "O", "P", "Q", "R", "S", "T", "U", "V", "W", "X", "Y", "Z">>

LowerChars ==
  <<"a", "b", "c", "d", "e", "f", "g", "h", "i", "j", "k", "l", "m",
    "n", "o", "p", "q", "r", "s", "t", "u", "v", "w", "x", "y", "z">>

LowerOf ==
  [c \in { UpperChars[i] : i \in 1..26 } |->
     LowerChars[CHOOSE i \in 1..26 : UpperChars[i] = c]]

LowerChar(c) == IF c \in DOMAIN LowerOf THEN LowerOf[c] ELSE c

\* str.lower()
Lower(s) == [i \in 1..Len(s) |-> LowerChar(s[i])]

\* dict.get(k, default)
Get(d, k, default) == IF k \in DOMAIN d THEN d[k] ELSE default

RECURSIVE Join(_, _)
\* sep.join(parts) for a sequence of str contents
Join(sep, parts) ==
  IF parts = <<>> THEN <<>>
  ELSE IF Len(parts) = 1 THEN parts[1]
  ELSE parts[1] \o sep \o Join(sep, Tail(parts))

(***************************************************************************)
(* Results of a call that can raise: Ok(v) or Raised.                      *)
(***************************************************************************)
Ok(v) == [raised |-> FALSE, val |-> v]

Raised == [raised |-> TRUE, val |-> <<>>]

(***************************************************************************)
(* DuplicateDetector                                                       *)
(***************************************************************************)

\* The five fields read by the fingerprint, with their defaults.
KeyFields(claim) ==
  << Get(claim, "claim_number", PyStr(<<>>)),
     Get(claim, "insured_party", PyStr(<<>>)),
     PyStr(ToStr(Get(claim, "claim_amount", PyInt(0)))),
     Get(claim, "loss_date", PyStr(<<>>)),
     Get(claim, "loss_location", PyStr(<<>>)) >>

\* _create_claim_fingerprint: '|'.join(key_fields) raises TypeError when a
\* field is not a str; the digest of the joined text is taken as injective,
\* so the joined text stands for it.
CreateClaimFingerprint(claim) ==
  LET kf == KeyFields(claim)
  IN IF \E i \in 1..Len(kf) : kf[i].ty # "str" THEN Raised
     ELSE Ok(Join(<<"|">>, [i \in 1..Len(kf) |-> kf[i].s]))

\* _get_claim_text: the truthy parts, each through str(), joined by a space
GetClaimText(claim) ==
  LET parts == << Get(claim, "claim_number", PyStr(<<>>)),
                  Get(claim, "insured_party", PyStr(<<>>)),
                  Get(claim, "loss_description", PyStr(<<>>)),
                  Get(claim, "loss_location", PyStr(<<>>)),
                  PyStr(ToStr(Get(claim, "claim_amount", PyInt(0)))) >>
      kept == SelectSeq(parts, Truthy)
  IN Join(<<" ">>, [i \in 1..Len(kept) |-> ToStr(kept[i])])

(***************************************************************************)
(* difflib.SequenceMatcher(None, a, b).ratio() for texts shorter than the  *)
(* 200 characters at which its popularity heuristic starts.                *)
(***************************************************************************)
RECURSIVE RunLen(_, _, _, _, _, _)
\* length of the common run of a and b starting at a[i], b[j], inside the
\* windows that end at ahi and bhi
RunLen(a, b, i, j, ahi, bhi) ==
  IF i <= ahi /\ j <= bhi /\ a[i] = b[j]
  THEN 1 + RunLen(a, b, i + 1, j + 1, ahi, bhi)
  ELSE 0

\* find_longest_match: the longest matching block of a[alo..ahi] and
\* b[blo..bhi]; of the longest ones the one starting earliest in a, and of
\* those the one starting earliest in b
FindLongestMatch(a, b, alo, ahi, blo, bhi) ==
  LET cand == { [i |-> i, j |-> j, k |-> RunLen(a, b, i, j, ahi, bhi)] :
                  i \in alo..ahi, j \in blo..bhi }
      kmax == CHOOSE k \in { c.k : c \in cand } : \A c \in cand : c.k <= k
      longest == { c \in cand : c.k = kmax }
  IN CHOOSE c \in longest :
       \A d \in longest : c.i < d.i \/ (c.i = d.i /\ c.j <= d.j)

RECURSIVE MatchCount(_, _, _, _, _, _)
\* get_matching_blocks: total size of the blocks found by splitting around
\* the longest match and recursing to its left and to its right
MatchCount(a, b, alo, ahi, blo, bhi) ==
  IF alo > ahi \/ blo > bhi THEN 0
  ELSE LET m == FindLongestMatch(a, b, alo, ahi, blo, bhi)
       IN IF m.k = 0 THEN 0
          ELSE m.k + MatchCount(a, b, alo, m.i - 1, blo, m.j - 1)
                   + MatchCount(a, b, m.i + m.k, ahi, m.j + m.k, bhi)

(***************************************************************************)
(* Confidences are exact fractions num/den; a confidence taken from the    *)
(* external service may also be a non-number.                              *)
(***************************************************************************)
Frac(num, den) == [ty |-> "num", num |-> num, den |-> den]

NotANumber == [ty |-> "str", num |-> 0, den |-> 1]

\* x > y on two numeric confidences
Greater(x, y) == x.num * y.den > y.num * x.den

\* ratio(): 2.0 * matches / (len(a) + len(b)), and 1.0 for two empty texts
Ratio(a, b) ==
  IF Len(a) + Len(b) = 0 THEN Frac(1, 1)
  ELSE Frac(2 * MatchCount(a, b, 1, Len(a), 1, Len(b)), Len(a) + Len(b))

\* _calculate_similarity
CalculateSimilarity(text1, text2) == Ratio(Lower(text1), Lower(text2))

\* settings.DUPLICATE_THRESHOLD, 0.8 unless the environment overrides it
DUPLICATE_THRESHOLD == Frac(4, 5)

(***************************************************************************)
(* The registry: a dict in insertion order, as a sequence of               *)
(* [id, entry] pairs with distinct ids.                                    *)
(***************************************************************************)
RegIds(reg) == { reg[i].id : i \in 1..Len(reg) }

\* reg[key] = entry: a new key is appended, an existing key keeps its place
\* and gets the new value
RegSet(reg, key, entry) ==
  IF key \in RegIds(reg)
  THEN [i \in 1..Len(reg) |->
          IF reg[i].id = key THEN [id |-> key, entry |-> entry] ELSE reg[i]]
  ELSE Append(reg, [id |-> key, entry |-> entry])

RegGet(reg, key) == reg[CHOOSE i \in 1..Len(reg) : reg[i].id = key].entry

\* the candidates of a pass, in registry order, for the entries that match
MatchesOf(reg, hit(_), mk(_)) ==
  LET idx == SelectSeq([i \in 1..Len(reg) |-> i], hit)
  IN [n \in 1..Len(idx) |-> mk(idx[n])]

\* _check_exact_matches
CheckExactMatches(current_claim, processed_claims) ==
  LET cur == CreateClaimFingerprint(current_claim)
      fp(i) == CreateClaimFingerprint(processed_claims[i].entry)
      hit(i) == fp(i).val = cur.val
      mk(i) == [claim_id |-> processed_claims[i].id,
                match_type |-> "exact",
                confidence |-> Frac(1, 1),
                matching_fields |-> "full_claim_fingerprint"]
  IN IF cur.raised \/ \E i \in 1..Len(processed_claims) : fp(i).raised
     THEN Raised
     ELSE Ok(MatchesOf(processed_claims, hit, mk))

\* _check_similar_matches
CheckSimilarMatches(current_claim, processed_claims) ==
  LET current_text == GetClaimText(current_claim)
      sim(i) == CalculateSimilarity(current_text,
                                    GetClaimText(processed_claims[i].entry))
      hit(i) == Greater(sim(i), DUPLICATE_THRESHOLD)
      mk(i) == [claim_id |-> processed_claims[i].id,
                match_type |-> "similar",
                confidence |-> sim(i),
                matching_fields |-> "claim_content"]
  IN MatchesOf(processed_claims, hit, mk)

(***************************************************************************)
(* The reply of the external service to the duplicate prompt: whether it   *)
(* contains a ```json fence, whether the fenced text is valid JSON, and    *)
(* the JSON object it holds.  analyze_content returns a text in every      *)
(* case (an "Analysis failed" text when the call fails), never raises.     *)
(***************************************************************************)
AiText(fenced, valid, body) ==
  [fenced |-> fenced, valid |-> valid, body |-> body]

\* _parse_ai_duplicate_result without the test of line 126
ParseAiDuplicateResult_Unvalidated(ai_text, processed_claims) ==
  LET listed == IF ~ai_text.fenced THEN <<>>
                ELSE Get(ai_text.body, "matches", <<>>)
  IN IF ai_text.fenced /\ ~ai_text.valid THEN <<>>
     ELSE [n \in 1..Len(listed) |->
             [claim_id |-> Get(listed[n], "claim_id", PyNone),
              match_type |-> "ai_detected",
              confidence |-> Get(listed[n], "confidence", Frac(7, 10)),
              matching_fields |-> Get(listed[n], "matching_fields",
                                      "ai_analysis")]]

\* _parse_ai_duplicate_result; claim_id in processed_claims raises
\* TypeError on a claim_id that cannot be hashed, and the except clause
\* then returns no candidate at all
ParseAiDuplicateResult(ai_text, processed_claims) ==
  LET listed == IF ~ai_text.fenced THEN <<>>
                ELSE Get(ai_text.body, "matches", <<>>)
      accepted(m) == Get(m, "claim_id", PyNone) \in RegIds(processed_claims)
      kept == SelectSeq(listed, accepted)
  IN IF ai_text.fenced /\ ~ai_text.valid THEN <<>>
     ELSE IF \E n \in 1..Len(listed) :
               Get(listed[n], "claim_id", PyNone).ty = "list"
     THEN <<>>
     ELSE [n \in 1..Len(kept) |->
             [claim_id |-> Get(kept[n], "claim_id", PyNone),
              match_type |-> "ai_detected",
              confidence |-> Get(kept[n], "confidence", Frac(7, 10)),
              matching_fields |-> Get(kept[n], "matching_fields",
                                      "ai_analysis")]]

\* line 84: the number of registry entries the prompt may carry
SAMPLE_LIMIT == 10

\* the sample without its limit
SampleClaims_Whole(processed_claims) == processed_claims

\* lines 84-87: dict(list(processed_claims.items())[:10]) when the registry
\* holds more than 10 entries, the registry itself otherwise
SampleClaims(processed_claims) ==
  IF Len(processed_claims) > SAMPLE_LIMIT
  THEN SubSeq(processed_claims, 1, SAMPLE_LIMIT)
  ELSE processed_claims

\* _build_duplicate_prompt: the text carries the current claim and the
\* claims it is given, both through json.dumps
BuildDuplicatePrompt(current_claim, sample_claims) ==
  [current_claim |-> current_claim, processed_claims |-> sample_claims]

\* _ai_duplicate_check: the reply is parsed against the whole registry
AiDuplicateCheck(current_claim, processed_claims, ai_text) ==
  ParseAiDuplicateResult(ai_text, processed_claims)

RECURSIVE MaxByConfidence(_, _)
\* max(all_matches, key=confidence): the first of the greatest
MaxByConfidence(ms, n) ==
  IF n = 1 THEN ms[1]
  ELSE LET best == MaxByConfidence(ms, n - 1)
       IN IF ms[n].confidence.ty = "num"
             /\ Greater(ms[n].confidence, best.confidence)
          THEN ms[n] ELSE best

\* _combine_duplicate_results; comparing a number with a non-number raises
CombineDuplicateResults(exact_matches, similar_matches, ai_matches) ==
  LET all_matches == exact_matches \o similar_matches \o ai_matches
      tys == { all_matches[i].confidence.ty : i \in 1..Len(all_matches) }
      best_match == MaxByConfidence(all_matches, Len(all_matches))
  IN IF all_matches = <<>>
     THEN Ok([is_duplicate |-> FALSE, confidence |-> Frac(0, 1),
              matches |-> <<>>])
     ELSE IF Cardinality(tys) > 1 THEN Raised
     ELSE Ok([is_duplicate |-> TRUE,
              confidence |-> best_match.confidence,
              duplicate_of |-> best_match.claim_id,
              match_type |-> best_match.match_type,
              all_matches |-> all_matches,
              total_matches_found |-> Len(all_matches)])

ErrorVerdict ==
  [is_duplicate |-> FALSE, confidence |-> Frac(0, 1), error |-> "error"]

\* check_duplicate
CheckDuplicate(current_claim, processed_claims, ai_text) ==
  LET exact_matches == CheckExactMatches(current_claim, processed_claims)
      similar_matches == CheckSimilarMatches(current_claim, processed_claims)
      ai_matches == AiDuplicateCheck(current_claim, processed_claims, ai_text)
      duplicate_result == CombineDuplicateResults(exact_matches.val,
                                                  similar_matches, ai_matches)
  IN IF processed_claims = <<>>
     THEN [is_duplicate |-> FALSE, confidence |-> Frac(0, 1)]
     ELSE IF exact_matches.raised THEN ErrorVerdict
     ELSE IF duplicate_result.raised THEN ErrorVerdict
     ELSE duplicate_result.val

(***************************************************************************)
(* ClaimsProcessingPipeline                                                *)
(***************************************************************************)
VARIABLES
  processed_claims,  \* per pipeline object: its in-memory registry
  claims_file,       \* processed_claims.json, shared by every pipeline
  now,               \* the clock read by datetime.now()
  result,            \* the ProcessingResult returned by the latest call
  alive,             \* per pipeline object: its process is running
  dup_in,            \* the arguments of a call of check_duplicate
  dup_out,           \* the verdict that call returned
  pc,                \* per dashboard thread: where it is in process_single_claim
  frame,             \* per dashboard thread: the locals of its call
  loop_pc,           \* per continuous loop: where the loop is
  loop_frame,        \* per continuous loop: its batch and the claim in hand
  stop_event         \* the dashboard's stop_event is set

pipeVars == <<processed_claims, claims_file, now, result, alive>>

dupVars == <<dup_in, dup_out>>

threadVars == <<pc, frame>>

loopVars == <<loop_pc, loop_frame, stop_event>>

\* the continuous loops: run_continuous_processing of the command line and
\* background_email_processor of the dashboard
Loops == {"cli", "dashboard"}

\* the dashboard's background thread and the thread of a /api/process-now
\* request; both use the one global processing_pipeline
Threads == {"background", "process_now"}

\* the pipeline objects that can exist at once on one registry file
Instances == {1, 2}

\* processed_claims.json: missing, a complete JSON document, or cut short
NoFile == [kind |-> "absent", reg |-> <<>>]

PartialFile == [kind |-> "partial", reg |-> <<>>]

JsonFile(reg) == [kind |-> "json", reg |-> reg]

\* json.dump writes a key that is not a str as its JSON text
JsonKey(k) ==
  CASE k.ty = "str" -> k
    [] k.ty = "none" -> PyStr(<<"n", "u", "l", "l">>)
    [] OTHER -> PyStr(ToStr(k))

JsonDump(reg) ==
  [i \in 1..Len(reg) |-> [id |-> JsonKey(reg[i].id), entry |-> reg[i].entry]]

\* _load_processed_claims: {} when the file is missing or does not parse
LoadProcessedClaims(file) ==
  IF file.kind = "json" THEN file.reg ELSE <<>>

\* the ways one run of _save_processed_claims can end
SaveOutcomes == {"ok", "open_fails", "write_fails", "killed"}

\* _save_processed_claims: open(..., 'w') truncates the file, json.dump then
\* writes it; every Exception is logged and swallowed
SaveProcessedClaims(file, reg, outcome) ==
  CASE outcome = "ok" -> JsonFile(JsonDump(reg))
    [] outcome = "open_fails" -> file
    [] OTHER -> PartialFile

\* the registry update without its guard
ShouldRegister_Unguarded(duplicate_check) == TRUE

\* line 108: the registry is updated unless the verdict says duplicate
ShouldRegister(duplicate_check) ==
  ~Get(duplicate_check, "is_duplicate", FALSE)

\* lines 109-116: the value stored under the claim number
RegistryEntry(res, claim_analysis) ==
  [email_id |-> res.email_id,
   subject |-> res.subject,
   sender_email |-> res.sender_email,
   processed_at |-> res.processed_at,
   fraud_score |-> res.fraud_score,
   analysis_summary |-> Get(claim_analysis, "summary", <<>>)]

\* lines 93-105: the result of a claim that went through; analysis_results
\* is kept as its claim_analysis and duplicate_check parts
CompletedResult(email_data, claim_analysis, duplicate_check, fraud, t) ==
  [email_id |-> email_data.id,
   claim_number |->
     Get(claim_analysis, "claim_number",
         PyStr(<<"U", "n", "k", "n", "o", "w", "n">>)),
   subject |-> email_data.subject,
   sender_email |-> email_data.sender_email,
   processing_status |-> "completed",
   fraud_score |-> fraud,
   is_duplicate |-> Get(duplicate_check, "is_duplicate", FALSE),
   duplicate_of |-> Get(duplicate_check, "duplicate_of", PyNone),
   duplicate_check |-> duplicate_check,
   claim_analysis |-> claim_analysis,
   processed_at |-> t]

\* lines 122-136: the result of a claim whose processing raised
FailedResult(email_data, t) ==
  [email_id |-> email_data.id,
   claim_number |-> PyStr(<<"E", "r", "r", "o", "r">>),
   subject |-> email_data.subject,
   sender_email |-> email_data.sender_email,
   processing_status |-> "failed",
   fraud_score |-> 0,
   is_duplicate |-> FALSE,
   duplicate_of |-> PyNone,
   duplicate_check |-> <<>>,
   claim_analysis |-> <<>>,
   processed_at |-> t]

NoResult == [processing_status |-> "none"]

\* the registry insert and save placed before the report is generated
FinishClaim_RegisterBeforeReport(reg, file, t, email_data, claim_analysis, duplicate_check, fraud, report_ok, save) ==
  LET res == CompletedResult(email_data, claim_analysis, duplicate_check,
                             fraud, t)
      newReg == RegSet(reg, res.claim_number,
                       RegistryEntry(res, claim_analysis))
      final == IF report_ok THEN res ELSE FailedResult(email_data, t)
  IN IF ShouldRegister(duplicate_check)
     THEN [reg |-> newReg,
           file |-> SaveProcessedClaims(file, newReg, save),
           result |-> final]
     ELSE [reg |-> reg, file |-> file, result |-> final]

\* lines 78-120 once the duplicate verdict is known: fraud score, report,
\* result, then the registry insert and save.  Gives the registry, the file
\* and the returned result; report_ok = FALSE is generate_claim_report
\* raising, which the handler turns into a failed result.
FinishClaim(reg, file, t, email_data, claim_analysis, duplicate_check, fraud, report_ok, save) ==
  LET res == CompletedResult(email_data, claim_analysis, duplicate_check,
                             fraud, t)
      newReg == RegSet(reg, res.claim_number,
                       RegistryEntry(res, claim_analysis))
  IN IF ~report_ok
     THEN [reg |-> reg, file |-> file, result |-> FailedResult(email_data, t)]
     ELSE IF ShouldRegister(duplicate_check)
     THEN [reg |-> newReg,
           file |-> SaveProcessedClaims(file, newReg, save),
           result |-> res]
     ELSE [reg |-> reg, file |-> file, result |-> res]

(***************************************************************************)
(* The inputs of the model: emails, the analyses the analyzer can return   *)
(* for them, and the replies of the external service to the duplicate      *)
(* prompt.                                                                 *)
(***************************************************************************)
Emails ==
  { [id |-> "e1", subject |-> "Claim", sender_email |-> "a@x.com"],
    [id |-> "e2", subject |-> "URGENT claim", sender_email |-> "b@y.com"] }

CLM100 == PyStr(<<"C", "L", "M", "-", "1", "0", "0">>)

CLM200 == PyStr(<<"C", "L", "M", "-", "2", "0", "0">>)

\* a complete analysis of claim CLM-100
AnalysisA ==
  [claim_number |-> CLM100,
   insured_party |-> PyStr(<<"A", "c", "m", "e">>),
   claim_amount |-> PyInt(500),
   loss_date |-> PyStr(<<"2", "0", "2", "4">>),
   loss_location |-> PyStr(<<"K", "e">>),
   loss_description |-> PyStr(<<"f", "i", "r", "e">>)]

\* the same claim number with another amount
AnalysisA2 == [AnalysisA EXCEPT !.claim_amount = PyInt(900)]

\* an analysis whose JSON carried "loss_date": null
AnalysisNull ==
  [AnalysisA EXCEPT !.claim_number = CLM200, !.loss_date = PyNone]

\* an analysis whose JSON object was empty
AnalysisEmpty == <<>>

Analyses == {AnalysisA, AnalysisA2, AnalysisNull, AnalysisEmpty}

\* a reply without a ```json fence (also the "Analysis failed" text)
ReplyNoFence == AiText(FALSE, FALSE, <<>>)

\* a fenced reply that lists CLM-100 under "matches", without a confidence
ReplyNamesA == AiText(TRUE, TRUE, [matches |-> <<[claim_id |-> CLM100]>>])

\* a fenced reply whose two matches carry "high" and 0.9 as confidence
ReplyMixed ==
  AiText(TRUE, TRUE,
         [matches |-> << [claim_id |-> CLM100, confidence |-> NotANumber],
                         [claim_id |-> CLM100, confidence |-> Frac(9, 10)] >>])

Replies == {ReplyNoFence, ReplyNamesA, ReplyMixed}

\* fraud scores, in hundredths
FraudScores == {30}

(***************************************************************************)
(* EmailProcessor, the mailbox it reads and the continuous loop that hands *)
(* its emails to process_single_claim.                                     *)
(***************************************************************************)
VARIABLES
  cmp_in,            \* two claims handed to the fingerprint and the similarity
  cmp_out,           \* what the two functions returned for them
  fraud_in,          \* the arguments of a call of detect_fraud
  fraud_out,         \* the assessment that call returned
  inbox,             \* per message on the server: it is still unseen
  processed_emails,  \* per pipeline object: its EmailProcessor's registry
  emails_file,       \* processed_emails.json
  batch,             \* per pipeline object: the list its loop iterates, and where
  offered,           \* per email fingerprint: times handed to the pipeline
  last_status        \* per email fingerprint: status of its latest claim

cmpVars == <<cmp_in, cmp_out>>

fraudVars == <<fraud_in, fraud_out>>

mailVars ==
  <<inbox, processed_emails, emails_file, batch, offered, last_status>>

\* the messages on the server, by IMAP id; e3 is e1 sent a second time and
\* e4 carries none of the keywords
Mailbox ==
  [e1 |-> [id |-> "e1", subject |-> <<"C", "l", "a", "i", "m", " ", "7">>,
           sender_email |-> <<"a", "@", "x", ".", "c", "o", "m">>, body |-> <<"h", "u", "l", "l">>,
           body_preview |-> <<"h", "u", "l", "l">>, attachments |-> <<"a.pdf">>],
   e2 |-> [id |-> "e2", subject |-> <<"U", "R", "G", "E", "N", "T", " ", "c", "l", "a", "i", "m">>,
           sender_email |-> <<"b", "@", "y", ".", "c", "o", "m">>, body |-> <<"f", "i", "r", "e">>,
           body_preview |-> <<"f", "i", "r", "e">>, attachments |-> <<>>],
   e3 |-> [id |-> "e3", subject |-> <<"C", "l", "a", "i", "m", " ", "7">>,
           sender_email |-> <<"a", "@", "x", ".", "c", "o", "m">>, body |-> <<"h", "u", "l", "l">>,
           body_preview |-> <<"h", "u", "l", "l">>, attachments |-> <<"a.pdf">>],
   e4 |-> [id |-> "e4", subject |-> <<"L", "u", "n", "c", "h">>,
           sender_email |-> <<"a", "@", "x", ".", "c", "o", "m">>, body |-> <<"n", "o", "o", "n">>,
           body_preview |-> <<"n", "o", "o", "n">>, attachments |-> <<>>]]

\* the ids in the order unique_email_ids.sort() gives them
MailIds == <<"e1", "e2", "e3", "e4">>

Min(a, b) == IF a < b THEN a ELSE b

\* _get_email_fingerprint: the four values that json.dumps writes; the
\* digest is taken as injective, so the values stand for it
GetEmailFingerprint(email_data) ==
  LET body_preview == Get(email_data, "body_preview", <<>>)
  IN [subject |-> Get(email_data, "subject", <<>>),
      sender_email |-> Get(email_data, "sender_email", <<>>),
      body_preview |-> SubSeq(body_preview, 1, Min(Len(body_preview), 200)),
      attachment_count |-> Len(Get(email_data, "attachments", <<>>))]

Fingerprints ==
  { GetEmailFingerprint(Mailbox[id]) : id \in DOMAIN Mailbox }

\* processed_emails.json: missing, or a complete JSON document
NoEmailsFile == [kind |-> "absent", fps |-> {}]

\* _load_processed_emails: {} when the file is missing or does not parse
LoadProcessedEmails(file) == IF file.kind = "json" THEN file.fps ELSE {}

NoCall == [called |-> FALSE]

\* the loop of run_continuous_processing between two batches
NoBatch == [todo |-> <<>>, emails |-> <<>>, next |-> 1]

InitCmp ==
  /\ cmp_in = NoCall
  /\ cmp_out = NoCall

InitFraud ==
  /\ fraud_in = NoCall
  /\ fraud_out = NoCall

\* every message unseen, nothing processed yet
InitMail ==
  /\ inbox = [id \in DOMAIN Mailbox |-> TRUE]
  /\ processed_emails = [p \in Instances |-> {}]
  /\ emails_file = NoEmailsFile
  /\ batch = [p \in Instances |-> NoBatch]
  /\ offered = [f \in Fingerprints |-> 0]
  /\ last_status = [f \in Fingerprints |-> "none"]

(***************************************************************************)
(* Actions                                                                 *)
(***************************************************************************)
\* the pipeline right after it was constructed on a machine without a
\* registry file
InitPipeline ==
  /\ processed_claims = [p \in Instances |-> <<>>]
  /\ claims_file = NoFile
  /\ now = 0
  /\ result = NoResult
  /\ alive = [p \in Instances |-> p = 1]

NoFrame == [called |-> FALSE]

InitThreads ==
  /\ pc = [t \in Threads |-> "idle"]
  /\ frame = [t \in Threads |-> NoFrame]

\* no continuous loop is running
NoLoop == [todo |-> <<>>, called |-> FALSE]

InitLoops ==
  /\ loop_pc = [l \in Loops |-> "stopped"]
  /\ loop_frame = [l \in Loops |-> NoLoop]
  /\ stop_event = FALSE

Init ==
  /\ InitPipeline
  /\ InitThreads
  /\ InitLoops
  /\ dup_in = NoCall
  /\ dup_out = NoCall
  /\ InitCmp
  /\ InitFraud
  /\ InitMail

\* process_single_claim on pipeline p, from the first line to the return,
\* for every email, analysis of it, reply to the duplicate prompt, fraud
\* score, outcome of the report and outcome of the save.  A process killed
\* inside the save returns nothing.
ProcessSingleClaim(p) ==
  /\ alive[p]
  /\ now < MaxClock
  /\ \E claim_analysis \in Analyses, ai_text \in Replies :
       \E duplicate_check \in
            {CheckDuplicate(claim_analysis, processed_claims[p], ai_text)} :
         \E email_data \in Emails, fraud \in FraudScores,
            report_ok \in BOOLEAN, save \in SaveOutcomes :
           LET out == FinishClaim(processed_claims[p], claims_file, now,
                                  email_data, claim_analysis, duplicate_check,
                                  fraud, report_ok, save)
               killed == /\ report_ok
                         /\ ShouldRegister(duplicate_check)
                         /\ save = "killed"
           IN /\ processed_claims' = [processed_claims EXCEPT ![p] = out.reg]
              /\ claims_file' = out.file
              /\ result' = IF killed THEN NoResult ELSE out.result
              /\ alive' = [alive EXCEPT ![p] = ~killed]
  /\ now' = now + 1
  /\ UNCHANGED dupVars
  /\ UNCHANGED threadVars
  /\ UNCHANGED loopVars
  /\ UNCHANGED <<cmpVars, fraudVars, mailVars>>

\* ClaimsProcessingPipeline.__init__ in a new process: its EmailProcessor
\* loads processed_emails.json and the registry is loaded from its file
PipelineInit(p) ==
  /\ ~alive[p]
  /\ processed_claims' =
       [processed_claims EXCEPT ![p] = LoadProcessedClaims(claims_file)]
  /\ alive' = [alive EXCEPT ![p] = TRUE]
  /\ result' = NoResult
  /\ processed_emails' =
       [processed_emails EXCEPT ![p] = LoadProcessedEmails(emails_file)]
  /\ batch' = [batch EXCEPT ![p] = NoBatch]
  /\ UNCHANGED <<claims_file, now>>
  /\ UNCHANGED <<inbox, emails_file, offered, last_status>>
  /\ UNCHANGED dupVars
  /\ UNCHANGED threadVars
  /\ UNCHANGED loopVars
  /\ UNCHANGED <<cmpVars, fraudVars>>

vars ==
  <<processed_claims, claims_file, now, result, alive, dup_in, dup_out, pc,
    frame, cmp_in, cmp_out, fraud_in, fraud_out, inbox, processed_emails,
    emails_file, batch, offered, last_status, loop_pc, loop_frame,
    stop_event>>

\* one pipeline object, one claim at a time
Next == ProcessSingleClaim(1) \/ PipelineInit(1)

Spec == Init /\ [][Next]_vars

\* x = y on two confidences
SameFraction(x, y) ==
  x.ty = "num" /\ y.ty = "num" /\ x.num * y.den = y.num * x.den

\* the five fields that identify a claim
SameIdentity(c, d) ==
  \A f \in {"claim_number", "insured_party", "claim_amount", "loss_date",
            "loss_location"} :
    f \in DOMAIN c /\ f \in DOMAIN d /\ c[f] = d[f]

(***************************************************************************)
(* check_duplicate as a function of its arguments (SpecDup): any claim     *)
(* against any registry, also one whose entries carry the claim fields,    *)
(* with any reply of the external service.                                 *)
(***************************************************************************)
MaxRegLen == 2

KEY3 == PyStr(<<"K">>)

\* an entry as process_single_claim stores it
StoredEntry ==
  [email_id |-> "e1", subject |-> "Claim", sender_email |-> "a@x.com",
   processed_at |-> 0, fraud_score |-> 30, analysis_summary |-> <<>>]

DupIds == {CLM100, CLM200, KEY3}

DupEntries == {AnalysisA, AnalysisA2, StoredEntry}

\* the registries of at most MaxRegLen entries, with distinct ids
DupRegistries ==
  UNION { { r \in [1..n -> [id : DupIds, entry : DupEntries]] :
              \A i, j \in 1..n : i # j => r[i].id # r[j].id } :
          n \in 0..MaxRegLen }

\* a fenced reply that lists CLM-100 with confidence 1.5
ReplyOver ==
  AiText(TRUE, TRUE,
         [matches |-> <<[claim_id |-> CLM100, confidence |-> Frac(3, 2)]>>])

\* a fenced reply that lists CLM-100 with the non-numeric confidence "high"
ReplyHigh ==
  AiText(TRUE, TRUE,
         [matches |-> <<[claim_id |-> CLM100, confidence |-> NotANumber]>>])

\* a fenced reply that is not valid JSON
ReplyInvalid == AiText(TRUE, FALSE, <<>>)

\* a fenced reply that lists CLM-100 and a match whose claim_id is a list
ReplyListId ==
  AiText(TRUE, TRUE,
         [matches |-> << [claim_id |-> CLM100], [claim_id |-> PyList] >>])

DupReplies ==
  {ReplyNoFence, ReplyNamesA, ReplyMixed, ReplyOver, ReplyHigh, ReplyInvalid,
   ReplyListId}

InitDup ==
  /\ InitPipeline
  /\ dup_in \in [called : {TRUE}, current_claim : Analyses,
                 processed_claims : DupRegistries, ai_text : DupReplies]
  /\ dup_out = NoCall
  /\ InitThreads
  /\ InitLoops
  /\ InitCmp
  /\ InitFraud
  /\ InitMail

\* one call of check_duplicate on the drawn arguments
CallCheckDuplicate ==
  /\ ~dup_out.called
  /\ dup_out' = [called |-> TRUE,
                 verdict |-> CheckDuplicate(dup_in.current_claim,
                                            dup_in.processed_claims,
                                            dup_in.ai_text)]
  /\ UNCHANGED dup_in
  /\ UNCHANGED pipeVars
  /\ UNCHANGED threadVars
  /\ UNCHANGED loopVars
  /\ UNCHANGED <<cmpVars, fraudVars, mailVars>>

NextDup == CallCheckDuplicate

SpecDup == InitDup /\ [][NextDup]_vars

\* C3: when the registry holds an entry whose claim_number, insured_party,
\* claim_amount, loss_date and loss_location are those of the incoming claim,
\* check_duplicate returns is_duplicate = true, match_type = exact and
\* confidence = 1.0, whatever the fuzzy and semantic passes contribute.
C3_IdenticalFieldsGiveExact ==
  ( /\ dup_out.called
    /\ \E i \in 1..Len(dup_in.processed_claims) :
         SameIdentity(dup_in.current_claim, dup_in.processed_claims[i].entry) )
  => ( /\ dup_out.verdict.is_duplicate
       /\ Get(dup_out.verdict, "match_type", "none") = "exact"
       /\ SameFraction(dup_out.verdict.confidence, Frac(1, 1)) )

\* the candidates the passes of one call produced: none when the registry
\* is empty (no pass runs) or when the exact pass raised (the passes after
\* it do not run)
CandidatesProduced(current_claim, registry, ai_text) ==
  LET exact_matches == CheckExactMatches(current_claim, registry)
  IN IF registry = <<>> \/ exact_matches.raised THEN <<>>
     ELSE exact_matches.val
            \o CheckSimilarMatches(current_claim, registry)
            \o AiDuplicateCheck(current_claim, registry, ai_text)

\* C11: every verdict of check_duplicate has is_duplicate = true exactly
\* when the exact, fuzzy or semantic pass produced at least one candidate,
\* and with an empty registry the verdict is is_duplicate = false with
\* confidence 0.0.
C11_DuplicateIffCandidates ==
  dup_out.called
  => ( /\ dup_out.verdict.is_duplicate
            <=> CandidatesProduced(dup_in.current_claim,
                                   dup_in.processed_claims,
                                   dup_in.ai_text) # <<>>
       /\ dup_in.processed_claims = <<>>
            => ( /\ ~dup_out.verdict.is_duplicate
                 /\ SameFraction(dup_out.verdict.confidence, Frac(0, 1)) ) )

\* the verdict check_duplicate would build from the passes that did not
\* raise, a pass that raised counting for no candidates
VerdictOfOtherPasses(current_claim, registry, ai_text) ==
  LET exact_matches == CheckExactMatches(current_claim, registry)
  IN CombineDuplicateResults(
       IF exact_matches.raised THEN <<>> ELSE exact_matches.val,
       CheckSimilarMatches(current_claim, registry),
       AiDuplicateCheck(current_claim, registry, ai_text))

\* C20: when a detection pass raises, only that pass contributes no
\* candidates: check_duplicate returns the verdict built from the
\* candidates of the other passes.
C20_FailedPassContributesNothing ==
  ( /\ dup_out.called
    /\ dup_in.processed_claims # <<>>
    /\ CheckExactMatches(dup_in.current_claim,
                         dup_in.processed_claims).raised )
  => LET expected == VerdictOfOtherPasses(dup_in.current_claim,
                                          dup_in.processed_claims,
                                          dup_in.ai_text)
     IN ~expected.raised
        => ( /\ dup_out.verdict.is_duplicate = expected.val.is_duplicate
             /\ expected.val.is_duplicate
                  => ( /\ dup_out.verdict.confidence = expected.val.confidence
                       /\ Get(dup_out.verdict, "duplicate_of", PyNone)
                            = expected.val.duplicate_of ) )

\* candidate i has the highest numeric confidence of the list and is the
\* first one that has it
FirstHighest(list, i) ==
  /\ list[i].confidence.ty = "num"
  /\ \A j \in 1..Len(list) :
       list[j].confidence.ty = "num"
         => /\ ~Greater(list[j].confidence, list[i].confidence)
            /\ j < i => Greater(list[i].confidence, list[j].confidence)

\* C21: when several candidates exist, the verdict's duplicate_of,
\* match_type and confidence are those of the candidate with the highest
\* confidence, and among equal highest confidences those of the first one
\* in the order exact pass, fuzzy pass, semantic pass.
C21_BestCandidateChosen ==
  dup_out.called
  => LET list == CandidatesProduced(dup_in.current_claim,
                                    dup_in.processed_claims,
                                    dup_in.ai_text)
     IN Len(list) >= 2
        => \E i \in 1..Len(list) :
             /\ FirstHighest(list, i)
             /\ Get(dup_out.verdict, "duplicate_of", PyNone)
                  = list[i].claim_id
             /\ Get(dup_out.verdict, "match_type", "none")
                  = list[i].match_type
             /\ dup_out.verdict.confidence = list[i].confidence

\* the claim_ids the reply lists under "matches"
ListedIds(ai_text) ==
  IF ai_text.fenced /\ ai_text.valid
  THEN LET listed == Get(ai_text.body, "matches", <<>>)
       IN { Get(listed[i], "claim_id", PyNone) : i \in 1..Len(listed) }
  ELSE {}

\* the reply without the matches whose claim_id is not a key of registry
KnownOnly(ai_text, registry) ==
  IF ListedIds(ai_text) = {} THEN ai_text
  ELSE LET known(m) == Get(m, "claim_id", PyNone) \in RegIds(registry)
       IN AiText(TRUE, TRUE,
                 [matches |-> SelectSeq(ai_text.body.matches, known)])

\* C25: every match candidate of a verdict, and so duplicate_of, names a
\* claim_id that is a key of the registry passed to check_duplicate; the
\* claim_ids of the reply that are not registry keys are dropped without
\* failing the check: the check errs only if it errs without them too.
C25_CandidatesAreRegistryKeys ==
  dup_out.called
  => LET keys == RegIds(dup_in.processed_claims)
         all_matches == Get(dup_out.verdict, "all_matches", <<>>)
     IN /\ \A i \in 1..Len(all_matches) : all_matches[i].claim_id \in keys
        /\ "duplicate_of" \in DOMAIN dup_out.verdict
             => dup_out.verdict.duplicate_of \in keys
        /\ "error" \in DOMAIN dup_out.verdict
             => "error" \in DOMAIN
                  CheckDuplicate(dup_in.current_claim,
                                 dup_in.processed_claims,
                                 KnownOnly(dup_in.ai_text,
                                           dup_in.processed_claims))

\* the reply named a claim_id that is no registry key and the verdict, a
\* duplicate, came from the other candidates
C25_Witness ==
  /\ dup_out.called
  /\ ListedIds(dup_in.ai_text) # {}
  /\ ListedIds(dup_in.ai_text) \cap RegIds(dup_in.processed_claims) = {}
  /\ dup_out.verdict.is_duplicate
  /\ "error" \notin DOMAIN dup_out.verdict

(***************************************************************************)
(* Properties of one pipeline processing one claim at a time (Spec).       *)
(***************************************************************************)

\* a step that is one whole call of process_single_claim on pipeline 1
\* which returned a result
Returned == now' = now + 1 /\ result'.processing_status # "none"

\* the registry of pipeline 1 and the registry file are left as they were
RegistryUntouched ==
  /\ processed_claims'[1] = processed_claims[1]
  /\ claims_file' = claims_file

\* C1: a call of process_single_claim whose duplicate verdict has
\* is_duplicate = true leaves the in-memory registry and the registry file
\* exactly as they were; the registry changes only on a not-duplicate verdict.
C1_DuplicateNeverRegistered ==
  [][ (Returned /\ result'.processing_status = "completed"
         /\ Get(result'.duplicate_check, "is_duplicate", FALSE))
      => RegistryUntouched ]_vars

\* a claim was judged a duplicate of an entry of a non-empty registry
C1_Witness ==
  /\ result.processing_status = "completed"
  /\ Get(result.duplicate_check, "is_duplicate", FALSE)
  /\ processed_claims[1] # <<>>

\* C2: from an empty registry, two claims with the same claim_number,
\* insured_party, claim_amount, loss_date and loss_location processed one
\* after the other: the first is registered, the second comes back with
\* is_duplicate = true, confidence 1.0 and duplicate_of = the claim number,
\* and is not registered again.
C2_SecondIsExactDuplicate ==
  [][ ( /\ now = 1
        /\ result.processing_status = "completed"
        /\ Returned
        /\ result'.processing_status = "completed"
        /\ SameIdentity(result.claim_analysis, result'.claim_analysis) )
      => ( /\ result.claim_number \in RegIds(processed_claims[1])
           /\ result'.is_duplicate
           /\ SameFraction(result'.duplicate_check.confidence, Frac(1, 1))
           /\ result'.duplicate_of = result.claim_number
           /\ processed_claims'[1] = processed_claims[1] ) ]_vars

\* C4: a claim that comes back completed and not duplicate has been written
\* to the registry file: when the write fails the claim is failed instead
\* and is not left registered.
C4_CompletedMeansSaved ==
  (result.processing_status = "completed" /\ ~result.is_duplicate)
  => ( /\ claims_file = JsonFile(JsonDump(processed_claims[1]))
       /\ result.claim_number \in RegIds(claims_file.reg) )

\* C5: every step leaves the registry file either as it was or holding the
\* complete registry of the pipeline that saved it.
C5_SaveIsAtomic ==
  [][ \/ claims_file' = claims_file
      \/ claims_file' = JsonFile(JsonDump(processed_claims'[1])) ]_vars

\* C6: no call of process_single_claim changes the value stored under a
\* claim number that is already in the registry.
C6_AppendOnlyByKey ==
  [][ now' = now + 1
      => \A i \in 1..Len(processed_claims[1]) :
           LET key == processed_claims[1][i].id
           IN key \in RegIds(processed_claims'[1])
              => RegGet(processed_claims'[1], key)
                   = processed_claims[1][i].entry ]_vars

\* C9: a call that returns processing_status = failed leaves the registry,
\* in memory and in the file, equal to what it was before the call.
C9_FailedLeavesRegistry ==
  [][ (Returned /\ result'.processing_status = "failed")
      => RegistryUntouched ]_vars

\* a claim failed while the registry already held entries
C9_Witness ==
  /\ result.processing_status = "failed"
  /\ processed_claims[1] # <<>>
  /\ claims_file.kind = "json"

\* C10: when the duplicate check itself errored (its verdict carries an
\* error), the claim is not registered.
C10_ErroredCheckNotRegistered ==
  [][ (Returned /\ result'.processing_status = "completed"
         /\ "error" \in DOMAIN result'.duplicate_check)
      => processed_claims'[1] = processed_claims[1] ]_vars

(***************************************************************************)
(* Two pipeline objects on one registry file (SpecShared): the dashboard   *)
(* and main.py each construct their own, and so does each process.         *)
(***************************************************************************)
NextShared == \E p \in Instances : ProcessSingleClaim(p) \/ PipelineInit(p)

SpecShared == Init /\ [][NextShared]_vars

\* C8: an entry that one pipeline saved to the shared registry file is not
\* removed from the file by a later save, of the other pipeline or of its
\* own: each complete file holds the claim numbers of the complete file it
\* replaces.
C8_SavesKeepOtherEntries ==
  [][ (claims_file.kind = "json" /\ claims_file'.kind = "json")
      => RegIds(claims_file.reg) \subseteq RegIds(claims_file'.reg) ]_vars

(***************************************************************************)
(* The dashboard (SpecThreads): its background thread and a request thread *)
(* call process_single_claim on the same pipeline object, with no lock.    *)
(* A thread can be preempted between the duplicate check, which waits for  *)
(* the external service, and its registry insert.                          *)
(***************************************************************************)

\* lines 65-71: the call starts; the text is extracted and analyzed
T_Analyze(t) ==
  /\ alive[1]
  /\ pc[t] = "idle"
  /\ now + Cardinality({ u \in Threads : pc[u] # "idle" }) < MaxClock
  /\ \E email_data \in Emails, claim_analysis \in Analyses :
       frame' = [frame EXCEPT ![t] =
                   [called |-> TRUE, email_data |-> email_data,
                    claim_analysis |-> claim_analysis]]
  /\ pc' = [pc EXCEPT ![t] = "analyzed"]
  /\ UNCHANGED pipeVars
  /\ UNCHANGED dupVars
  /\ UNCHANGED loopVars
  /\ UNCHANGED <<cmpVars, fraudVars, mailVars>>

\* lines 74-76: check_duplicate reads the shared registry; seen keeps the
\* registry the verdict was computed from
T_CheckDuplicate(t) ==
  /\ pc[t] = "analyzed"
  /\ \E ai_text \in Replies :
       frame' = [frame EXCEPT ![t] =
                   [called |-> TRUE, email_data |-> frame[t].email_data,
                    claim_analysis |-> frame[t].claim_analysis,
                    duplicate_check |->
                      CheckDuplicate(frame[t].claim_analysis,
                                     processed_claims[1], ai_text),
                    seen |-> processed_claims[1]]]
  /\ pc' = [pc EXCEPT ![t] = "checked"]
  /\ UNCHANGED pipeVars
  /\ UNCHANGED dupVars
  /\ UNCHANGED loopVars
  /\ UNCHANGED <<cmpVars, fraudVars, mailVars>>

\* lines 79-120: fraud score, report, result, registry insert and save on
\* the registry as it is now, and the return (the process is not killed
\* here)
T_Finish(t) ==
  /\ pc[t] = "checked"
  /\ \E fraud \in FraudScores, report_ok \in BOOLEAN,
        save \in SaveOutcomes \ {"killed"} :
       LET out == FinishClaim(processed_claims[1], claims_file, now,
                              frame[t].email_data, frame[t].claim_analysis,
                              frame[t].duplicate_check, fraud, report_ok,
                              save)
       IN /\ processed_claims' = [processed_claims EXCEPT ![1] = out.reg]
          /\ claims_file' = out.file
          /\ result' = out.result
  /\ now' = now + 1
  /\ pc' = [pc EXCEPT ![t] = "idle"]
  /\ frame' = [frame EXCEPT ![t] = NoFrame]
  /\ UNCHANGED alive
  /\ UNCHANGED dupVars
  /\ UNCHANGED loopVars
  /\ UNCHANGED <<cmpVars, fraudVars, mailVars>>

NextThreads ==
  \E t \in Threads : T_Analyze(t) \/ T_CheckDuplicate(t) \/ T_Finish(t)

SpecThreads == Init /\ [][NextThreads]_vars

\* C7: between the registry read of a claim's duplicate decision and that
\* claim's registry write no other claim's registry write happens: while a
\* call is between its check and its write, the registry is the one its
\* verdict was computed from.
C7_NoInterleavedWrite ==
  \A t \in Threads :
    pc[t] = "checked" => processed_claims[1] = frame[t].seen

(***************************************************************************)
(* _create_claim_fingerprint and _calculate_similarity as functions of two *)
(* claims (SpecCmp): the fingerprint of each, and the similarity of their  *)
(* texts taken in both orders, as the fuzzy pass takes it when either      *)
(* claim is the incoming one and the other the registered one.             *)
(***************************************************************************)
\* a claim of which only the number and the insured party are known
NumberAndParty(claim_number, insured_party) ==
  [claim_number |-> PyStr(claim_number), insured_party |-> PyStr(insured_party)]

CmpNumbers ==
  { <<"A", "|", "B">>, <<"A">>,
    <<"a", "a", "a", "b", "a", "a">>,
    <<"a", "b", "a", "a", "b", "a">> }

CmpParties == {<<>>, <<"B", "|">>}

\* claim CLM-100 with another description of the loss
AnalysisHull ==
  [AnalysisA EXCEPT !.loss_description = PyStr(<<"h", "u", "l", "l">>)]

CmpClaims ==
  { NumberAndParty(n, i) : n \in CmpNumbers, i \in CmpParties }
    \cup {AnalysisA, AnalysisA2, AnalysisHull, AnalysisNull}

InitCmpCall ==
  /\ InitPipeline
  /\ InitThreads
  /\ InitLoops
  /\ dup_in = NoCall
  /\ dup_out = NoCall
  /\ cmp_in \in [called : {TRUE}, a : CmpClaims, b : CmpClaims]
  /\ cmp_out = NoCall
  /\ InitFraud
  /\ InitMail

\* both functions applied to the drawn claims
CompareClaims ==
  /\ ~cmp_out.called
  /\ cmp_out' =
       [called |-> TRUE,
        fingerprint_a |-> CreateClaimFingerprint(cmp_in.a),
        fingerprint_b |-> CreateClaimFingerprint(cmp_in.b),
        similarity_ab |-> CalculateSimilarity(GetClaimText(cmp_in.a),
                                              GetClaimText(cmp_in.b)),
        similarity_ba |-> CalculateSimilarity(GetClaimText(cmp_in.b),
                                              GetClaimText(cmp_in.a)),
        similarity_aa |-> CalculateSimilarity(GetClaimText(cmp_in.a),
                                              GetClaimText(cmp_in.a))]
  /\ UNCHANGED cmp_in
  /\ UNCHANGED pipeVars
  /\ UNCHANGED dupVars
  /\ UNCHANGED threadVars
  /\ UNCHANGED loopVars
  /\ UNCHANGED <<fraudVars, mailVars>>

NextCmp == CompareClaims

SpecCmp == InitCmpCall /\ [][NextCmp]_vars

\* C17: two claims whose claim_number, insured_party, str(claim_amount),
\* loss_date and loss_location are equal get the same fingerprint, and two
\* claims that differ in claim_number get different fingerprints.
C17_FingerprintInjectiveOnNumber ==
  ( /\ cmp_out.called
    /\ ~cmp_out.fingerprint_a.raised
    /\ ~cmp_out.fingerprint_b.raised )
  => ( /\ KeyFields(cmp_in.a) = KeyFields(cmp_in.b)
            => cmp_out.fingerprint_a = cmp_out.fingerprint_b
       /\ Get(cmp_in.a, "claim_number", PyStr(<<>>))
              # Get(cmp_in.b, "claim_number", PyStr(<<>>))
            => cmp_out.fingerprint_a # cmp_out.fingerprint_b )

\* 0 <= x <= 1 on a similarity
InUnitInterval(x) == x.num >= 0 /\ x.num <= x.den

\* C18: the similarity of the fuzzy pass is symmetric, is 1.0 for a text
\* and itself, and lies in [0,1].
C18_SimilaritySymmetricReflexive ==
  cmp_out.called
  => ( /\ SameFraction(cmp_out.similarity_ab, cmp_out.similarity_ba)
       /\ SameFraction(cmp_out.similarity_aa, Frac(1, 1))
       /\ InUnitInterval(cmp_out.similarity_ab)
       /\ InUnitInterval(cmp_out.similarity_ba) )

(***************************************************************************)
(* FraudDetector.  Scores are exact fractions; the inputs are decimals     *)
(* with one or two places, on which the float arithmetic of the code gives *)
(* the same comparisons.                                                   *)
(***************************************************************************)
\* sub in s
Contains(s, sub) ==
  \E i \in 0..(Len(s) - Len(sub)) : SubSeq(s, i + 1, i + Len(sub)) = sub

\* any(p in s for p in patterns)
ContainsAny(s, patterns) == \E sub \in patterns : Contains(s, sub)

IsDigit(c) == \E i \in 1..Len(Digits) : Digits[i] = c

\* lines 53-54 and 184: claim_amount > 1000000 raises TypeError when the
\* analysis carries the amount as a text or as null
AmountOverMillion(claim_analysis) ==
  LET claim_amount == Get(claim_analysis, "claim_amount", PyInt(0))
  IN IF claim_amount.ty \in {"int", "float"}
     THEN Ok(claim_amount.n > 1000000)
     ELSE Raised

DATE_2024_01_05 == <<"2", "0", "2", "4", "-", "0", "1", "-", "0", "5">>

\* datetime.strptime(date_str, '%Y-%m-%d').toordinal() for the loss dates of
\* the inputs that the format parses
DateOrdinal == [d \in {DATE_2024_01_05} |-> 738890]

\* the days datetime.now() can fall on: 2023-12-01, 2024-01-08 and
\* 2024-06-01
Todays == {738855, 738893, 739038}

\* _suspicious_date_pattern; date_str.lower() raises AttributeError on a
\* truthy value that is not a str
SuspiciousDatePattern(date_str, today) ==
  IF ~Truthy(date_str) THEN Ok(TRUE)
  ELSE IF date_str.ty # "str" THEN Raised
  ELSE IF Lower(date_str.s) \in {<<"u", "n", "k", "n", "o", "w", "n">>, <<"n", "/", "a">>}
  THEN Ok(TRUE)
  ELSE IF date_str.s \in DOMAIN DateOrdinal
  THEN Ok(today - DateOrdinal[date_str.s] < 7)
  ELSE Ok(FALSE)

\* lines 65-66: .lower() raises AttributeError when loss_location is null
VagueLocation(claim_analysis) ==
  LET location == Get(claim_analysis, "loss_location", PyStr(<<>>))
  IN IF location.ty # "str" THEN Raised
     ELSE Ok(ContainsAny(Lower(location.s),
                         {<<"u", "n", "k", "n", "o", "w", "n">>,
                          <<"t", "b", "d">>, <<"n", "/", "a">>}))

\* the mutation of _suspicious_email_pattern that keeps only the domains
SuspiciousEmailPattern_DomainsOnly(email) ==
  ContainsAny(email, {<<"t", "e", "m", "p", "-", "m", "a", "i", "l">>,
                      <<"t", "h", "r", "o", "w", "a", "w", "a", "y">>,
                      <<"g", "u", "e", "r", "r", "i", "l", "l", "a", "m", "a", "i", "l">>})

\* _suspicious_email_pattern; re.search(r'\d{6,}@') finds six digits right
\* before an @
SuspiciousEmailPattern(email) ==
  \/ ContainsAny(email, {<<"t", "e", "m", "p", "-", "m", "a", "i", "l">>,
                         <<"t", "h", "r", "o", "w", "a", "w", "a", "y">>,
                         <<"g", "u", "e", "r", "r", "i", "l", "l", "a", "m", "a", "i", "l">>})
  \/ \E i \in 1..(Len(email) - 6) :
       /\ \A k \in 0..5 : IsDigit(email[i + k])
       /\ email[i + 6] = "@"

\* lines 77-79
UrgencyLanguage(subject) ==
  ContainsAny(subject, {<<"u", "r", "g", "e", "n", "t">>,
                        <<"i", "m", "m", "e", "d", "i", "a", "t", "e">>,
                        <<"a", "s", "a", "p">>,
                        <<"e", "m", "e", "r", "g", "e", "n", "c", "y">>})

\* _rule_based_fraud_detection: the sum of the rules that fire, capped at
\* 1.0, or the exception
RuleBasedFraudDetection(claim_analysis, email_data, today) ==
  LET amount == AmountOverMillion(claim_analysis)
      date == SuspiciousDatePattern(
                Get(claim_analysis, "loss_date", PyStr(<<>>)), today)
      location == VagueLocation(claim_analysis)
      sender_email == Lower(Get(email_data, "sender_email", <<>>))
      subject == Lower(Get(email_data, "subject", <<>>))
      tenths == (IF amount.val THEN 3 ELSE 0)
                  + (IF date.val THEN 2 ELSE 0)
                  + (IF location.val THEN 1 ELSE 0)
                  + (IF SuspiciousEmailPattern(sender_email) THEN 2 ELSE 0)
                  + (IF UrgencyLanguage(subject) THEN 1 ELSE 0)
  IN IF amount.raised \/ date.raised \/ location.raised THEN Raised
     ELSE Ok(Frac(Min(tenths, 10), 10))

\* what json.loads gives for the reply: an object, or another JSON value
JsonDict(items) == [ty |-> "dict", items |-> items]

JsonList(items) == [ty |-> "list", items |-> items]

JsonNull == [ty |-> "null", items |-> <<>>]

\* _parse_fraud_analysis
ParseFraudAnalysis(ai_text) ==
  IF ~ai_text.fenced
  THEN JsonDict([fraud_indicators |->
                   JsonList(<<"Analysis completed but parsing failed">>),
                 confidence |-> Frac(1, 2),
                 recommendations |-> JsonList(<<"Manual review recommended">>)])
  ELSE IF ~ai_text.valid
  THEN JsonDict([fraud_indicators |-> JsonList(<<"Analysis parsing error">>),
                 confidence |-> Frac(1, 2),
                 recommendations |->
                   JsonList(<<"System error - manual review required">>)])
  ELSE ai_text.body

\* _ai_based_fraud_detection: analyze_content returns a text in every case
AiBasedFraudDetection(ai_text) == ParseFraudAnalysis(ai_text)

\* line 161 with 0.0 in the place of the 0.5 it falls back on
AiScore_FallbackZero(ai_analysis) ==
  IF ai_analysis.ty = "dict"
  THEN Get(ai_analysis.items, "confidence", Frac(0, 1))
  ELSE Frac(0, 1)

\* line 161
AiScore(ai_analysis) ==
  IF ai_analysis.ty = "dict"
  THEN Get(ai_analysis.items, "confidence", Frac(1, 2))
  ELSE Frac(1, 2)

\* ai_score * 0.6 + rule_score * 0.4
WeightedCombination(ai_score, rule_score) ==
  Frac(ai_score.num * 6 * rule_score.den + rule_score.num * 4 * ai_score.den,
       10 * ai_score.den * rule_score.den)

\* _combine_fraud_scores: multiplying a text or null by 0.6 raises TypeError
CombineFraudScores(rule_score, ai_analysis) ==
  LET ai_score == AiScore(ai_analysis)
      combined_score == WeightedCombination(ai_score, rule_score)
  IN IF ai_score.ty # "num" THEN Raised
     ELSE Ok(IF Greater(combined_score, Frac(1, 1)) THEN Frac(1, 1)
             ELSE combined_score)

\* _get_risk_level
GetRiskLevel(score) ==
  IF ~Greater(Frac(4, 5), score) THEN "HIGH"
  ELSE IF ~Greater(Frac(3, 5), score) THEN "MEDIUM"
  ELSE IF ~Greater(Frac(2, 5), score) THEN "LOW"
  ELSE "VERY LOW"

\* _extract_red_flags: extend() raises TypeError on null
ExtractRedFlags(claim_analysis, ai_analysis) ==
  LET amount == AmountOverMillion(claim_analysis)
      indicators == IF ai_analysis.ty = "dict"
                    THEN Get(ai_analysis.items, "fraud_indicators",
                             JsonList(<<>>))
                    ELSE JsonList(<<>>)
      red_flags == (IF amount.val
                    THEN <<"Exceptionally high claim amount">> ELSE <<>>)
                     \o indicators.items
  IN IF amount.raised \/ indicators.ty # "list" THEN Raised
     ELSE Ok(SubSeq(red_flags, 1, Min(Len(red_flags), 10)))

\* settings.FRAUD_THRESHOLD, 0.7 unless the environment overrides it
FRAUD_THRESHOLD == Frac(7, 10)

\* _generate_fraud_recommendations before its last line: the distinct
\* recommendations
AllRecommendations(score, ai_analysis) ==
  LET ai_recommendations == IF ai_analysis.ty = "dict"
                            THEN Get(ai_analysis.items, "recommendations",
                                     JsonList(<<>>))
                            ELSE JsonList(<<>>)
      by_score == IF Greater(score, FRAUD_THRESHOLD)
                  THEN {"Immediate investigation required",
                        "Contact insured party for verification",
                        "Review supporting documentation carefully",
                        "Consider involving special investigations unit"}
                  ELSE IF Greater(score, Frac(1, 2))
                  THEN {"Enhanced documentation review recommended",
                        "Verify loss details with independent sources",
                        "Check claim history of insured party"}
                  ELSE {"Standard processing procedures applicable"}
  IN IF ai_recommendations.ty # "list" THEN Raised
     ELSE Ok(by_score \cup { ai_recommendations.items[i] :
                               i \in 1..Len(ai_recommendations.items) })

\* list(set(recommendations))[:5]: a set has no order, so any five of more
\* than five can be the ones kept
FirstFive(recommendations) ==
  IF Cardinality(recommendations) <= 5 THEN {recommendations}
  ELSE { kept \in SUBSET recommendations : Cardinality(kept) = 5 }

\* _get_default_fraud_analysis
DefaultFraudAnalysis ==
  [fraud_score |-> Frac(1, 2),
   risk_level |-> "UNKNOWN",
   rule_based_score |-> Frac(0, 1),
   red_flags |-> <<"System error in fraud detection">>,
   recommendations |-> {"Manual fraud assessment required"},
   detection_methods |-> <<"failed">>]

\* detect_fraud: the assessments it can return
DetectFraud(claim_analysis, email_data, ai_text, today) ==
  LET rule_based_score ==
        RuleBasedFraudDetection(claim_analysis, email_data, today)
      ai_based_analysis == AiBasedFraudDetection(ai_text)
      final_score == CombineFraudScores(rule_based_score.val,
                                        ai_based_analysis)
      red_flags == ExtractRedFlags(claim_analysis, ai_based_analysis)
      recommendations == AllRecommendations(final_score.val,
                                            ai_based_analysis)
  IN IF \/ rule_based_score.raised
        \/ final_score.raised
        \/ red_flags.raised
        \/ recommendations.raised
     THEN {DefaultFraudAnalysis}
     ELSE { [fraud_score |-> final_score.val,
             risk_level |-> GetRiskLevel(final_score.val),
             rule_based_score |-> rule_based_score.val,
             red_flags |-> red_flags.val,
             recommendations |-> kept,
             detection_methods |-> <<"rule_based", "ai_analysis">>] :
            kept \in FirstFive(recommendations.val) }

(***************************************************************************)
(* detect_fraud as a function of its arguments, of the reply of the        *)
(* external service and of the day it runs on (SpecFraud).                 *)
(***************************************************************************)
\* the claim of two million with an unknown date at a place to be defined
AnalysisBig ==
  [claim_number |-> CLM100,
   claim_amount |-> PyInt(2000000),
   loss_date |-> PyStr(<<"u", "n", "k", "n", "o", "w", "n">>),
   loss_location |-> PyStr(<<"T", "B", "D">>)]

\* an analysis whose JSON carried the amount as the text "5,000"
AnalysisAmountText ==
  [AnalysisA EXCEPT !.claim_amount = PyStr(<<"5", ",", "0", "0", "0">>)]

\* a loss dated 2024-01-05
AnalysisRecent == [AnalysisA EXCEPT !.loss_date = PyStr(DATE_2024_01_05)]

FraudAnalyses ==
  {AnalysisA, AnalysisNull, AnalysisEmpty, AnalysisBig, AnalysisAmountText,
   AnalysisRecent}

\* the email of an auto-generated sender with an urgent subject
EmailUrgent ==
  [id |-> "e5", subject |-> <<"U", "R", "G", "E", "N", "T", " ", "c", "l", "a", "i", "m">>,
   sender_email |-> <<"9", "9", "9", "9", "9", "9", "@", "m", "a", "i", "l", ".", "c", "o", "m">>]

FraudEmails == {EmailUrgent, Mailbox.e1}

\* a fenced reply that is a JSON object with the given confidence
FraudReply(confidence) ==
  AiText(TRUE, TRUE,
         JsonDict([confidence |-> confidence,
                   fraud_indicators |-> JsonList(<<"Inflated value">>),
                   recommendations |->
                     JsonList(<<"Verify invoice", "Call broker">>)]))

\* a fenced reply that is an object without a confidence
FraudReplyBare == AiText(TRUE, TRUE, JsonDict(<<>>))

\* a fenced reply that is a JSON array
FraudReplyArray == AiText(TRUE, TRUE, JsonList(<<>>))

\* a fenced reply whose fraud_indicators is null
FraudReplyNullFlags ==
  AiText(TRUE, TRUE,
         JsonDict([confidence |-> Frac(3, 4), fraud_indicators |-> JsonNull]))

FraudReplies ==
  { ReplyNoFence, ReplyInvalid, FraudReplyBare, FraudReplyArray,
    FraudReplyNullFlags }
    \cup { FraudReply(c) : c \in { Frac(3, 4), Frac(1, 1), Frac(3, 2),
                                   Frac(-1, 1), NotANumber } }

InitFraudCall ==
  /\ InitPipeline
  /\ InitThreads
  /\ InitLoops
  /\ dup_in = NoCall
  /\ dup_out = NoCall
  /\ InitCmp
  /\ fraud_in \in [called : {TRUE}, claim_analysis : FraudAnalyses,
                   email_data : FraudEmails, ai_text : FraudReplies,
                   today : Todays]
  /\ fraud_out = NoCall
  /\ InitMail

\* one call of detect_fraud on the drawn arguments; the rule-based score it
\* computed on the way is kept beside the assessment
CallDetectFraud ==
  /\ ~fraud_out.called
  /\ \E assessment \in DetectFraud(fraud_in.claim_analysis,
                                   fraud_in.email_data, fraud_in.ai_text,
                                   fraud_in.today) :
       fraud_out' =
         [called |-> TRUE,
          rule_based_score |->
            RuleBasedFraudDetection(fraud_in.claim_analysis,
                                    fraud_in.email_data, fraud_in.today),
          assessment |-> assessment]
  /\ UNCHANGED fraud_in
  /\ UNCHANGED pipeVars
  /\ UNCHANGED dupVars
  /\ UNCHANGED threadVars
  /\ UNCHANGED loopVars
  /\ UNCHANGED <<cmpVars, mailVars>>

NextFraud == CallDetectFraud

SpecFraud == InitFraudCall /\ [][NextFraud]_vars

\* clamp(x, 0, 1)
Clamp(x) ==
  IF Greater(x, Frac(1, 1)) THEN Frac(1, 1)
  ELSE IF Greater(Frac(0, 1), x) THEN Frac(0, 1)
  ELSE x

\* C12: the fraud_score returned by detect_fraud lies in [0,1] and equals
\* ai_confidence * 0.6 + rule_score * 0.4 clamped to [0,1], for every claim,
\* email and reply of the external service.
C12_ScoreIsClampedBlend ==
  fraud_out.called
  => LET ai_score == AiScore(AiBasedFraudDetection(fraud_in.ai_text))
         rule_score == fraud_out.rule_based_score
     IN /\ InUnitInterval(fraud_out.assessment.fraud_score)
        /\ (~rule_score.raised /\ ai_score.ty = "num")
             => SameFraction(fraud_out.assessment.fraud_score,
                             Clamp(WeightedCombination(ai_score,
                                                       rule_score.val)))

\* the risk level the step function gives a score
StepOfScore(score) ==
  CASE score.num * 10 >= 8 * score.den -> "HIGH"
    [] score.num * 10 < 8 * score.den /\ score.num * 10 >= 6 * score.den
         -> "MEDIUM"
    [] score.num * 10 < 6 * score.den /\ score.num * 10 >= 4 * score.den
         -> "LOW"
    [] OTHER -> "VERY LOW"

\* C13: in every assessment detect_fraud returns, also the one it returns
\* when the scoring fails, risk_level is the step function of the returned
\* fraud_score: HIGH from 0.8, MEDIUM from 0.6, LOW from 0.4, else VERY LOW.
C13_RiskLevelIsStepOfScore ==
  fraud_out.called
  => fraud_out.assessment.risk_level
       = StepOfScore(fraud_out.assessment.fraud_score)

\* the call of the rule-based scoring on the claim of two million and the
\* urgent email
AllFiveRulesInput ==
  /\ fraud_out.called
  /\ fraud_in.claim_analysis = AnalysisBig
  /\ fraud_in.email_data = EmailUrgent

\* C14 as stated: for claim_amount 2,000,000, loss_date "unknown",
\* loss_location "TBD", sender 999999@mail.com and subject "URGENT claim" the
\* rule-based score is exactly 1.0.
C14_AllRulesGiveOne ==
  AllFiveRulesInput
  => ( /\ ~fraud_out.rule_based_score.raised
       /\ SameFraction(fraud_out.rule_based_score.val, Frac(1, 1)) )

\* C14 amended: for that input all five rules fire and the rule-based score
\* is exactly 0.9, the sum of the five weights, which the cap at 1.0 leaves
\* as it is.
C14_AllRulesGiveNineTenths ==
  AllFiveRulesInput
  => ( /\ ~fraud_out.rule_based_score.raised
       /\ SameFraction(fraud_out.rule_based_score.val, Frac(9, 10)) )

\* the rule-based scoring ran on that input and gave a score
C14_Witness ==
  /\ AllFiveRulesInput
  /\ ~fraud_out.rule_based_score.raised

\* the loss date is missing or unknown, or lies less than 7 days from today
DateMissingOrWithinSevenDays(claim_analysis, today) ==
  LET loss_date == Get(claim_analysis, "loss_date", PyStr(<<>>))
  IN \/ ~Truthy(loss_date)
     \/ /\ loss_date.ty = "str"
        /\ Lower(loss_date.s)
             \in {<<"u", "n", "k", "n", "o", "w", "n">>, <<"n", "/", "a">>}
     \/ /\ loss_date.ty = "str"
        /\ loss_date.s \in DOMAIN DateOrdinal
        /\ today - DateOrdinal[loss_date.s] < 7
        /\ DateOrdinal[loss_date.s] - today < 7

\* the weights, in tenths, of the triggers that hold
TriggerTenths(claim_analysis, email_data, today) ==
  (IF Get(claim_analysis, "claim_amount", PyInt(0)).n > 1000000
   THEN 3 ELSE 0)
    + (IF DateMissingOrWithinSevenDays(claim_analysis, today) THEN 2 ELSE 0)
    + (IF VagueLocation(claim_analysis).val THEN 1 ELSE 0)
    + (IF SuspiciousEmailPattern(Lower(email_data.sender_email))
       THEN 2 ELSE 0)
    + (IF UrgencyLanguage(Lower(email_data.subject)) THEN 1 ELSE 0)

\* C24: the rule-based score equals min(1.0, sum of the weights of the
\* triggers that hold), each counted once and none counted when its
\* condition does not hold: 0.30 amount over 1,000,000; 0.20 loss date
\* missing, unknown or within 7 days of now; 0.10 vague location; 0.20
\* suspicious sender; 0.10 urgency in the subject.
C24_RuleScoreIsSumOfTriggers ==
  (fraud_out.called /\ ~fraud_out.rule_based_score.raised)
  => SameFraction(fraud_out.rule_based_score.val,
                  Frac(Min(TriggerTenths(fraud_in.claim_analysis,
                                         fraud_in.email_data,
                                         fraud_in.today), 10), 10))

\* the reply gives no confidence to use: it has no fenced JSON (the text of a
\* failed call has none), the JSON does not parse, or the parsed value is not
\* an object with a confidence field
NoConfidenceGiven(ai_text) ==
  \/ ~ai_text.fenced
  \/ ~ai_text.valid
  \/ ai_text.body.ty # "dict"
  \/ "confidence" \notin DOMAIN ai_text.body.items

\* the assessment is one detect_fraud composed, not the one it falls back on
NormalAssessment(assessment) ==
  assessment.detection_methods = <<"rule_based", "ai_analysis">>

FiredRules(claim_analysis, email_data, today) ==
  LET amount == AmountOverMillion(claim_analysis)
      date == SuspiciousDatePattern(
                Get(claim_analysis, "loss_date", PyStr(<<>>)), today)
      location == VagueLocation(claim_analysis)
  IN (IF amount.val THEN 1 ELSE 0)
       + (IF date.val THEN 1 ELSE 0)
       + (IF location.val THEN 1 ELSE 0)
       + (IF SuspiciousEmailPattern(
               Lower(Get(email_data, "sender_email", <<>>)))
          THEN 1 ELSE 0)
       + (IF UrgencyLanguage(Lower(Get(email_data, "subject", <<>>)))
          THEN 1 ELSE 0)

\* the indicators the parsed reply reports
ReportedIndicators(ai_text) ==
  LET ai_analysis == AiBasedFraudDetection(ai_text)
  IN IF ai_analysis.ty = "dict"
     THEN Get(ai_analysis.items, "fraud_indicators", JsonList(<<>>)).items
     ELSE <<>>

\* C29: red_flags of a normal assessment holds one description for every
\* rule that fired in the rule-based score, followed by the indicators the
\* external service reported in their reported order, cut to 10 entries.
C29_RedFlagsListFiredRules ==
  (fraud_out.called /\ NormalAssessment(fraud_out.assessment))
  => LET red_flags == fraud_out.assessment.red_flags
         fired == FiredRules(fraud_in.claim_analysis, fraud_in.email_data,
                             fraud_in.today)
         indicators == ReportedIndicators(fraud_in.ai_text)
         kept == Min(10 - Min(fired, 10), Len(indicators))
     IN /\ Len(red_flags) = Min(fired + Len(indicators), 10)
        /\ Len(red_flags) <= 10
        /\ SubSeq(red_flags, Len(red_flags) - kept + 1, Len(red_flags))
             = SubSeq(indicators, 1, kept)

(***************************************************************************)
(* The continuous loop of pipeline 1 (SpecMail): process_emails builds the *)
(* batch, the for loop hands each of its emails to process_single_claim,   *)
(* the process can be interrupted and started again.                       *)
(***************************************************************************)
\* settings.TARGET_SENDER_EMAILS as configured for this mailbox
TargetSenders == {<<"a", "@", "x", ".", "c", "o", "m">>, <<"b", "@", "y", ".", "c", "o", "m">>}

\* settings.CLAIMS_KEYWORDS
ClaimsKeywords ==
  { <<"c", "l", "a", "i", "m">>, <<"m", "a", "r", "i", "n", "e">>,
    <<"i", "n", "s", "u", "r", "a", "n", "c", "e">>,
    <<"r", "e", "i", "n", "s", "u", "r", "a", "n", "c", "e">>,
    <<"l", "o", "s", "s">>, <<"d", "a", "m", "a", "g", "e">> }

\* settings.MAX_EMAILS_PER_RUN
MAX_EMAILS_PER_RUN == 50

\* _is_relevant_email
IsRelevantEmail(email_data) ==
  /\ \E target_sender \in TargetSenders :
       Contains(Lower(email_data.sender_email), Lower(target_sender))
  /\ \/ ContainsAny(Lower(email_data.subject), ClaimsKeywords)
     \/ ContainsAny(Lower(email_data.body), ClaimsKeywords)

\* the messages that pass _is_relevant_email
RelevantIds == { id \in DOMAIN Mailbox : IsRelevantEmail(Mailbox[id]) }

\* the fingerprint of each message
FingerprintOf ==
  [id \in DOMAIN Mailbox |-> GetEmailFingerprint(Mailbox[id])]

\* the messages an IMAP search FROM "sender" finds
IdsFrom ==
  [sender \in TargetSenders |->
     { id \in DOMAIN Mailbox :
         Contains(Lower(Mailbox[id].sender_email), Lower(sender)) }]

\* search_emails: the ids of the messages from the sender, the unseen ones
\* only for an UNSEEN search
SearchEmails(sender, unseen_only, unseen) ==
  { id \in IdsFrom[sender] : unseen_only => unseen[id] }

\* _get_emails_from_all_senders(process_all=False): per sender the unseen
\* messages, and all its messages when none is unseen
GetEmailsFromAllSenders(unseen) ==
  UNION { IF SearchEmails(sender, TRUE, unseen) # {}
          THEN SearchEmails(sender, TRUE, unseen)
          ELSE SearchEmails(sender, FALSE, unseen) : sender \in TargetSenders }

\* lines 94-98: the ids without repetition, sorted, at most fifty of them
IdsOfRun(unseen) ==
  LET InRun(id) == id \in GetEmailsFromAllSenders(unseen)
      unique_email_ids == SelectSeq(MailIds, InRun)
  IN SubSeq(unique_email_ids, 1,
            Min(Len(unique_email_ids), MAX_EMAILS_PER_RUN))

\* a complete processed_emails.json
JsonEmailsFile(fps) == [kind |-> "json", fps |-> fps]

\* the ways _process_single_email can go for a message: everything works
\* and the registry is saved, the save fails (logged and swallowed), or
\* compiling the PDF raises
EmailOutcomes == {"saved", "save_fails", "compile_fails"}

\* process_emails is between two calls of _process_single_email
InProcessEmails(p) == batch[p].todo # <<>>

\* the for loop of run_continuous_processing still has an email to handle
InForLoop(p) ==
  /\ batch[p].todo = <<>>
  /\ batch[p].next <= Len(batch[p].emails)

\* lines 153-155 and 73-97: process_emails(process_all=False) at the top of
\* an iteration of the loop, up to its own loop over the ids; it returns []
\* when the connection fails
ProcessEmails(p) ==
  /\ alive[p]
  /\ ~InProcessEmails(p)
  /\ ~InForLoop(p)
  /\ \E connected \in BOOLEAN :
       batch' = [batch EXCEPT ![p] =
                   [todo |-> IF connected THEN IdsOfRun(inbox) ELSE <<>>,
                    emails |-> <<>>, next |-> 1]]
  /\ UNCHANGED <<inbox, processed_emails, emails_file, offered, last_status>>
  /\ UNCHANGED pipeVars
  /\ UNCHANGED dupVars
  /\ UNCHANGED threadVars
  /\ UNCHANGED loopVars
  /\ UNCHANGED <<cmpVars, fraudVars>>

\* lines 98-106 and _process_single_email on the next id: a message that is
\* not relevant, is already processed, or whose PDF fails, is skipped; the
\* others are marked processed and appended to the returned list.  Fetching
\* a message with RFC822 sets its \Seen flag on the server.
ProcessSingleEmail(p) ==
  /\ alive[p]
  /\ InProcessEmails(p)
  /\ LET email_id == Head(batch[p].todo)
         fingerprint == FingerprintOf[email_id]
         rest == [batch[p] EXCEPT !.todo = Tail(@)]
     IN /\ inbox' = [inbox EXCEPT ![email_id] = FALSE]
        /\ \E outcome \in EmailOutcomes :
             IF \/ email_id \notin RelevantIds
                \/ fingerprint \in processed_emails[p]
                \/ outcome = "compile_fails"
             THEN /\ batch' = [batch EXCEPT ![p] = rest]
                  /\ UNCHANGED <<processed_emails, emails_file>>
             ELSE /\ processed_emails' =
                       [processed_emails EXCEPT ![p] = @ \cup {fingerprint}]
                  /\ emails_file' =
                       IF outcome = "saved"
                       THEN JsonEmailsFile(processed_emails'[p])
                       ELSE emails_file
                  /\ batch' =
                       [batch EXCEPT ![p] =
                          [rest EXCEPT !.emails = Append(@, Mailbox[email_id])]]
  /\ UNCHANGED <<offered, last_status>>
  /\ UNCHANGED pipeVars
  /\ UNCHANGED dupVars
  /\ UNCHANGED threadVars
  /\ UNCHANGED loopVars
  /\ UNCHANGED <<cmpVars, fraudVars>>

\* the analysis the analyzer gives for each message
AnalysisOfEmail ==
  [e1 |-> AnalysisA, e2 |-> AnalysisNull, e3 |-> AnalysisA,
   e4 |-> AnalysisEmpty]

\* offered stops counting at MaxOffered
MaxOffered == 2

\* the for loop stopping at the first claim that fails
AfterClaim_StopOnFailure(list, status) ==
  IF status = "failed"
  THEN [list EXCEPT !.next = Len(list.emails) + 1]
  ELSE [list EXCEPT !.next = @ + 1]

\* lines 160-165: whatever the claim's status, the for loop goes on to the
\* next email of the list
AfterClaim(list, status) == [list EXCEPT !.next = @ + 1]

\* lines 160-165: one turn of the for loop, process_single_claim on the
\* next email of the batch, with the registry save working.  The clock
\* stops at MaxClock, so that the loop can run on.
LoopClaim(p) ==
  /\ alive[p]
  /\ InForLoop(p)
  /\ LET email_data == batch[p].emails[batch[p].next]
         fingerprint == FingerprintOf[email_data.id]
         claim_analysis == AnalysisOfEmail[email_data.id]
     IN \E duplicate_check \in
             {CheckDuplicate(claim_analysis, processed_claims[p],
                             ReplyNoFence)} :
          \E fraud \in FraudScores, report_ok \in BOOLEAN, save \in {"ok"} :
            LET out == FinishClaim(processed_claims[p], claims_file, now,
                                   email_data, claim_analysis,
                                   duplicate_check, fraud, report_ok, save)
            IN /\ processed_claims' =
                    [processed_claims EXCEPT ![p] = out.reg]
               /\ claims_file' = out.file
               /\ result' = out.result
               /\ offered' = [offered EXCEPT ![fingerprint] =
                                Min(@ + 1, MaxOffered)]
               /\ last_status' = [last_status EXCEPT ![fingerprint] =
                                    out.result.processing_status]
               /\ batch' = [batch EXCEPT ![p] =
                              AfterClaim(@, out.result.processing_status)]
  /\ now' = IF now < MaxClock THEN now + 1 ELSE now
  /\ UNCHANGED alive
  /\ UNCHANGED <<inbox, processed_emails, emails_file>>
  /\ UNCHANGED dupVars
  /\ UNCHANGED threadVars
  /\ UNCHANGED loopVars
  /\ UNCHANGED <<cmpVars, fraudVars>>

\* lines 170-172: KeyboardInterrupt ends the loop and with it the process
Interrupt(p) ==
  /\ alive[p]
  /\ alive' = [alive EXCEPT ![p] = FALSE]
  /\ batch' = [batch EXCEPT ![p] = NoBatch]
  /\ UNCHANGED <<processed_claims, claims_file, now, result>>
  /\ UNCHANGED <<inbox, processed_emails, emails_file, offered, last_status>>
  /\ UNCHANGED dupVars
  /\ UNCHANGED threadVars
  /\ UNCHANGED loopVars
  /\ UNCHANGED <<cmpVars, fraudVars>>

NextMail ==
  \/ ProcessEmails(1)
  \/ ProcessSingleEmail(1)
  \/ LoopClaim(1)
  \/ Interrupt(1)
  \/ PipelineInit(1)

SpecMail == Init /\ [][NextMail]_vars

\* C15: an email whose fingerprint is recorded as processed is not handed
\* to process_single_claim again: over any sequence of process_emails runs
\* each fingerprint reaches the claim pipeline at most once.
C15_FingerprintOfferedOnce ==
  \A fingerprint \in Fingerprints : offered[fingerprint] <= 1

(***************************************************************************)
(* The loop of a process that is not interrupted, under its scheduling     *)
(* (SpecLoop): while True calls process_emails again after every sleep,    *)
(* and process_emails and the for loop go through their lists to the end.  *)
(***************************************************************************)
NextLoop ==
  \/ ProcessEmails(1)
  \/ ProcessSingleEmail(1)
  \/ LoopClaim(1)

SpecLoop ==
  /\ Init
  /\ [][NextLoop]_vars
  /\ WF_vars(ProcessEmails(1))
  /\ WF_vars(ProcessSingleEmail(1))
  /\ WF_vars(LoopClaim(1))

\* C16: a claim whose processing ended failed is processed again on a later
\* run: its email is eventually handed to process_single_claim a second
\* time.
C16_FailedIsOfferedAgain ==
  \A fingerprint \in Fingerprints :
    (last_status[fingerprint] = "failed" /\ offered[fingerprint] = 1)
      ~> (offered[fingerprint] = 2)

\* the list of the for loop holds email id after an email whose claim
\* ended failed
ComesAfterFailure(id) ==
  \E i, j \in 1..Len(batch[1].emails) :
    /\ i < j
    /\ batch[1].emails[j].id = id
    /\ last_status[FingerprintOf[batch[1].emails[i].id]] = "failed"

\* C19: a failed claim does not stop the process: every email that comes
\* after it in the batch of the continuous loop is still handed to
\* process_single_claim.
C19_LaterEmailsStillProcessed ==
  \A id \in DOMAIN Mailbox :
    ComesAfterFailure(id) ~> (offered[FingerprintOf[id]] >= 1)

\* the claim of e1 failed and e2, next in the same batch, got its result
C19_Witness ==
  /\ Len(batch[1].emails) = 2
  /\ batch[1].emails[1].id = "e1"
  /\ batch[1].next = 3
  /\ last_status[FingerprintOf["e1"]] = "failed"
  /\ result.email_id = "e2"
  /\ result.processing_status = "completed"

(***************************************************************************)
(* process_single_claim statement by statement inside the two continuous   *)
(* loops (SpecSteps): run_continuous_processing, which a KeyboardInterrupt *)
(* ends, and the dashboard's background_email_processor, which reads       *)
(* stop_event at the top of its while loop.  One loop runs at a time, on   *)
(* pipeline object 1.                                                      *)
(***************************************************************************)

\* the continuous loops take up claims while the clock is below
\* MaxLoopClaims
MaxLoopClaims == 2

\* the lists process_emails can return: one or two different emails
Batches ==
  { <<e>> : e \in Emails }
    \cup { pair \in Emails \X Emails : pair[1] # pair[2] }

\* the steps of a claim, in the order of the statements of lines 68-117
StepOrder ==
  <<"extract", "analyze", "duplicate_check", "fraud_check", "report",
    "register">>

\* the locals d with name set to value
With(d, name, value) ==
  [f \in DOMAIN d \cup {name} |-> IF f = name THEN value ELSE d[f]]

\* the locals d after one more step of the claim has returned
Done(d, step) == With(d, "steps", Append(d.steps, step))

\* the registry insert placed before the report as well
RegisterFrom_FraudChecked == {"fraud_checked", "reported"}

\* lines 90-109: the insert follows the return of generate_claim_report
RegisterFrom == {"reported"}

\* the main program calls run_continuous_processing, or the dashboard's
\* start request clears stop_event and starts the thread (app.py 330-339)
StartLoop(l) ==
  /\ alive[1]
  /\ \A k \in Loops : loop_pc[k] = "stopped"
  /\ loop_pc' = [loop_pc EXCEPT ![l] = "waiting"]
  /\ loop_frame' = [loop_frame EXCEPT ![l] = NoLoop]
  /\ stop_event' = IF l = "dashboard" THEN FALSE ELSE stop_event
  /\ UNCHANGED pipeVars
  /\ UNCHANGED dupVars
  /\ UNCHANGED threadVars
  /\ UNCHANGED <<cmpVars, fraudVars, mailVars>>

\* pipeline.py 152-158, app.py 202-211: the top of the while loop; the
\* dashboard's loop goes on only while stop_event is not set; process_emails
\* returns a list of emails
L_ProcessEmails(l) ==
  /\ loop_pc[l] = "waiting"
  /\ l = "dashboard" => ~stop_event
  /\ \E todo \in Batches :
       loop_frame' = [loop_frame EXCEPT ![l] = [NoLoop EXCEPT !.todo = todo]]
  /\ loop_pc' = [loop_pc EXCEPT ![l] = "in_batch"]
  /\ UNCHANGED stop_event
  /\ UNCHANGED pipeVars
  /\ UNCHANGED dupVars
  /\ UNCHANGED threadVars
  /\ UNCHANGED <<cmpVars, fraudVars, mailVars>>

\* app.py 202: while not stop_event.is_set() ends the dashboard's loop
L_ExitOnStop(l) ==
  /\ l = "dashboard"
  /\ loop_pc[l] = "waiting"
  /\ stop_event
  /\ loop_pc' = [loop_pc EXCEPT ![l] = "stopped"]
  /\ loop_frame' = [loop_frame EXCEPT ![l] = NoLoop]
  /\ UNCHANGED stop_event
  /\ UNCHANGED pipeVars
  /\ UNCHANGED dupVars
  /\ UNCHANGED threadVars
  /\ UNCHANGED <<cmpVars, fraudVars, mailVars>>

\* pipeline.py 160-168, app.py 213-236: the for loop has no email left and
\* the loop sleeps
L_EndBatch(l) ==
  /\ loop_pc[l] = "in_batch"
  /\ loop_frame[l].todo = <<>>
  /\ loop_pc' = [loop_pc EXCEPT ![l] = "waiting"]
  /\ UNCHANGED <<loop_frame, stop_event>>
  /\ UNCHANGED pipeVars
  /\ UNCHANGED dupVars
  /\ UNCHANGED threadVars
  /\ UNCHANGED <<cmpVars, fraudVars, mailVars>>

\* lines 62-65: the for loop calls process_single_claim on its next email
L_Start(l) ==
  /\ loop_pc[l] = "in_batch"
  /\ loop_frame[l].todo # <<>>
  /\ now < MaxLoopClaims
  /\ loop_frame' =
       [loop_frame EXCEPT ![l] =
          [todo |-> Tail(loop_frame[l].todo),
           called |-> TRUE,
           email_data |-> Head(loop_frame[l].todo),
           steps |-> <<>>,
           reg_at_start |-> processed_claims[1],
           file_at_start |-> claims_file]]
  /\ loop_pc' = [loop_pc EXCEPT ![l] = "started"]
  /\ UNCHANGED stop_event
  /\ UNCHANGED pipeVars
  /\ UNCHANGED dupVars
  /\ UNCHANGED threadVars
  /\ UNCHANGED <<cmpVars, fraudVars, mailVars>>

\* a statement of the call that changes only the locals of the call
LocalStep(l, from, to, locals) ==
  /\ loop_pc[l] = from
  /\ loop_frame' = [loop_frame EXCEPT ![l] = locals]
  /\ loop_pc' = [loop_pc EXCEPT ![l] = to]
  /\ UNCHANGED stop_event
  /\ UNCHANGED pipeVars
  /\ UNCHANGED dupVars
  /\ UNCHANGED threadVars
  /\ UNCHANGED <<cmpVars, fraudVars, mailVars>>

\* line 68: _extract_pdf_content, which returns '' when it fails
L_Extract(l) ==
  /\ loop_pc[l] = "started"
  /\ LocalStep(l, "started", "extracted", Done(loop_frame[l], "extract"))

\* line 71: analyze_claim
L_Analyze(l) ==
  /\ loop_pc[l] = "extracted"
  /\ \E claim_analysis \in Analyses :
       LocalStep(l, "extracted", "analyzed",
                 Done(With(loop_frame[l], "claim_analysis", claim_analysis),
                      "analyze"))

\* lines 74-76: check_duplicate against the registry in memory
L_CheckDuplicate(l) ==
  /\ loop_pc[l] = "analyzed"
  /\ \E ai_text \in Replies :
       \E duplicate_check \in
            {CheckDuplicate(loop_frame[l].claim_analysis,
                            processed_claims[1], ai_text)} :
         LocalStep(l, "analyzed", "dup_checked",
                   Done(With(loop_frame[l], "duplicate_check",
                             duplicate_check),
                        "duplicate_check"))

\* line 79: detect_fraud
L_DetectFraud(l) ==
  /\ loop_pc[l] = "dup_checked"
  /\ \E fraud \in FraudScores :
       LocalStep(l, "dup_checked", "fraud_checked",
                 Done(With(loop_frame[l], "fraud", fraud), "fraud_check"))

\* lines 119-120 and 122-136: process_single_claim returns res to the for
\* loop
ReturnToLoop(l, res) ==
  /\ result' = res
  /\ now' = now + 1
  /\ loop_pc' = [loop_pc EXCEPT ![l] = "in_batch"]

\* lines 82-90: generate_claim_report returns the path of the report
L_Report(l) ==
  /\ loop_pc[l] = "fraud_checked"
  /\ LocalStep(l, "fraud_checked", "reported",
               Done(loop_frame[l], "report"))

\* lines 90, 122-136: generate_claim_report raises and the claim fails
L_ReportRaises(l) ==
  /\ loop_pc[l] = "fraud_checked"
  /\ ReturnToLoop(l, FailedResult(loop_frame[l].email_data, now))
  /\ UNCHANGED <<processed_claims, claims_file, alive>>
  /\ UNCHANGED <<loop_frame, stop_event>>
  /\ UNCHANGED dupVars
  /\ UNCHANGED threadVars
  /\ UNCHANGED <<cmpVars, fraudVars, mailVars>>

\* lines 93-105: the result of the claim in hand
ResultOf(locals, t) ==
  CompletedResult(locals.email_data, locals.claim_analysis,
                  locals.duplicate_check, locals.fraud, t)

\* lines 108-116: the claim is inserted in the registry in memory
L_Insert(l) ==
  /\ loop_pc[l] \in RegisterFrom
  /\ "duplicate_check" \in DOMAIN loop_frame[l]
  /\ ShouldRegister(loop_frame[l].duplicate_check)
  /\ LET res == ResultOf(loop_frame[l], now)
     IN processed_claims' =
          [processed_claims EXCEPT ![1] =
             RegSet(@, res.claim_number,
                    RegistryEntry(res, loop_frame[l].claim_analysis))]
  /\ loop_frame' = [loop_frame EXCEPT ![l] = Done(@, "register")]
  /\ loop_pc' = [loop_pc EXCEPT ![l] = "inserted"]
  /\ UNCHANGED <<claims_file, now, result, alive>>
  /\ UNCHANGED stop_event
  /\ UNCHANGED dupVars
  /\ UNCHANGED threadVars
  /\ UNCHANGED <<cmpVars, fraudVars, mailVars>>

\* lines 108, 119-120: a duplicate is not registered and the call returns
L_SkipRegister(l) ==
  /\ loop_pc[l] = "reported"
  /\ ~ShouldRegister(loop_frame[l].duplicate_check)
  /\ ReturnToLoop(l, ResultOf(loop_frame[l], now))
  /\ UNCHANGED <<processed_claims, claims_file, alive>>
  /\ UNCHANGED <<loop_frame, stop_event>>
  /\ UNCHANGED dupVars
  /\ UNCHANGED threadVars
  /\ UNCHANGED <<cmpVars, fraudVars, mailVars>>

\* lines 57, 59-60: open(claims_file, 'w') truncates the file; when it
\* raises, the error is logged and the call returns
L_SaveOpen(l) ==
  /\ loop_pc[l] = "inserted"
  /\ \E opened \in BOOLEAN :
       IF opened
       THEN /\ claims_file' = PartialFile
            /\ loop_pc' = [loop_pc EXCEPT ![l] = "saving"]
            /\ UNCHANGED <<now, result>>
       ELSE /\ claims_file' = claims_file
            /\ ReturnToLoop(l, ResultOf(loop_frame[l], now))
  /\ UNCHANGED <<processed_claims, alive>>
  /\ UNCHANGED <<loop_frame, stop_event>>
  /\ UNCHANGED dupVars
  /\ UNCHANGED threadVars
  /\ UNCHANGED <<cmpVars, fraudVars, mailVars>>

\* lines 58-60, 119-120: json.dump writes the registry, or raises and is
\* logged, and the call returns
L_SaveDump(l) ==
  /\ loop_pc[l] = "saving"
  /\ \E written \in BOOLEAN :
       claims_file' = IF written
                      THEN JsonFile(JsonDump(processed_claims[1]))
                      ELSE PartialFile
  /\ ReturnToLoop(l, ResultOf(loop_frame[l], now))
  /\ UNCHANGED <<processed_claims, alive>>
  /\ UNCHANGED <<loop_frame, stop_event>>
  /\ UNCHANGED dupVars
  /\ UNCHANGED threadVars
  /\ UNCHANGED <<cmpVars, fraudVars, mailVars>>

\* pipeline.py 170-172: a KeyboardInterrupt reaches the main thread at any
\* statement; no except Exception clause catches it, so it leaves
\* process_single_claim and ends the loop and the process
L_Interrupt(l) ==
  /\ l = "cli"
  /\ loop_pc[l] # "stopped"
  /\ loop_pc' = [loop_pc EXCEPT ![l] = "stopped"]
  /\ alive' = [alive EXCEPT ![1] = FALSE]
  /\ loop_frame' = [loop_frame EXCEPT ![l] = NoLoop]
  /\ UNCHANGED <<processed_claims, claims_file, now, result>>
  /\ UNCHANGED stop_event
  /\ UNCHANGED dupVars
  /\ UNCHANGED threadVars
  /\ UNCHANGED <<cmpVars, fraudVars, mailVars>>

\* app.py 341-346: the dashboard's stop request sets stop_event
SetStop ==
  /\ ~stop_event
  /\ stop_event' = TRUE
  /\ UNCHANGED <<loop_pc, loop_frame>>
  /\ UNCHANGED pipeVars
  /\ UNCHANGED dupVars
  /\ UNCHANGED threadVars
  /\ UNCHANGED <<cmpVars, fraudVars, mailVars>>

NextSteps ==
  \/ SetStop
  \/ \E l \in Loops :
       \/ StartLoop(l)
       \/ L_ProcessEmails(l)
       \/ L_ExitOnStop(l)
       \/ L_EndBatch(l)
       \/ L_Start(l)
       \/ L_Extract(l)
       \/ L_Analyze(l)
       \/ L_CheckDuplicate(l)
       \/ L_DetectFraud(l)
       \/ L_Report(l)
       \/ L_ReportRaises(l)
       \/ L_Insert(l)
       \/ L_SkipRegister(l)
       \/ L_SaveOpen(l)
       \/ L_SaveDump(l)
       \/ L_Interrupt(l)

SpecSteps == Init /\ [][NextSteps]_vars

\* the steps a call has gone through begin StepOrder
InOrder(steps) ==
  /\ Len(steps) <= Len(StepOrder)
  /\ \A i \in 1..Len(steps) : steps[i] = StepOrder[i]

\* C22: process_single_claim performs extract, analyze, duplicate check,
\* fraud check, report and register in this order, each after the previous
\* one has returned, and the registry, in memory and in the file, is
\* written only after the report has been generated.
C22_StepsInOrder ==
  \A l \in Loops :
    loop_frame[l].called
    => /\ InOrder(loop_frame[l].steps)
       /\ ( \/ processed_claims[1] # loop_frame[l].reg_at_start
            \/ claims_file # loop_frame[l].file_at_start )
          => \E i \in 1..Len(loop_frame[l].steps) :
               loop_frame[l].steps[i] = "report"

\* a call went through all six steps and its claim is in the registry file
C22_Witness ==
  \E l \in Loops :
    /\ loop_frame[l].called
    /\ loop_frame[l].steps = StepOrder
    /\ loop_pc[l] = "in_batch"
    /\ claims_file.kind = "json"
    /\ claims_file # loop_frame[l].file_at_start

\* C23: a stop request takes effect only between claims: a continuous loop
\* exits only from between two claims or two batches, never from inside
\* process_single_claim.
C23_StopOnlyBetweenClaims ==
  [][ \A l \in Loops :
        (loop_pc[l] # "stopped" /\ loop_pc'[l] = "stopped")
        => loop_pc[l] \in {"waiting", "in_batch"} ]_vars

(***************************************************************************)
(* _ai_duplicate_check as a function of its arguments and of the reply of  *)
(* the external service (SpecSample), on registries longer than the        *)
(* sample.                                                                 *)
(***************************************************************************)
\* the longest registry drawn
MaxSampleReg == 12

\* the key of the i-th entry
SampleKey(i) == PyStr(<<"K">> \o IntToStr(i))

\* the registry of the first n keys, in insertion order
LongRegistry(n) == [i \in 1..n |-> [id |-> SampleKey(i), entry |-> StoredEntry]]

\* a fenced reply that lists the i-th key under "matches"
ReplyNames(i) ==
  AiText(TRUE, TRUE, [matches |-> <<[claim_id |-> SampleKey(i)]>>])

\* a fenced reply in the structure DUPLICATE_DETECTION_PROMPT asks for, with
\* the i-th key as the one matching claim
ReplyAsPrompted(i) ==
  AiText(TRUE, TRUE,
         [is_duplicate |-> TRUE,
          confidence |-> Frac(17, 20),
          matching_claims |->
            << [claim_id |-> SampleKey(i),
                match_type |-> "similar",
                similarity_score |-> Frac(19, 20)] >>])

SampleReplies ==
  {ReplyNoFence}
    \cup { ReplyNames(i) : i \in 1..MaxSampleReg }
    \cup { ReplyAsPrompted(i) : i \in 1..MaxSampleReg }

InitSample ==
  /\ InitPipeline
  /\ InitThreads
  /\ InitLoops
  /\ dup_in \in [called : {TRUE}, current_claim : {AnalysisA},
                 processed_claims :
                   { LongRegistry(n) : n \in 0..MaxSampleReg },
                 ai_text : SampleReplies]
  /\ dup_out = NoCall
  /\ InitCmp
  /\ InitFraud
  /\ InitMail

\* one call of _ai_duplicate_check on the drawn arguments; the prompt it
\* sent is kept beside the candidates it returned
CallAiDuplicateCheck ==
  /\ ~dup_out.called
  /\ dup_out' =
       [called |-> TRUE,
        prompt |-> BuildDuplicatePrompt(
                     dup_in.current_claim,
                     SampleClaims(dup_in.processed_claims)),
        ai_matches |-> AiDuplicateCheck(dup_in.current_claim,
                                        dup_in.processed_claims,
                                        dup_in.ai_text)]
  /\ UNCHANGED dup_in
  /\ UNCHANGED pipeVars
  /\ UNCHANGED threadVars
  /\ UNCHANGED loopVars
  /\ UNCHANGED <<cmpVars, fraudVars, mailVars>>

NextSample == CallAiDuplicateCheck

SpecSample == InitSample /\ [][NextSample]_vars

\* C26: a registry entry outside the sample sent to the external service is
\* never reported by the semantic pass: the claim_id of every ai_detected
\* candidate is a key of the sample.
C26_AiCandidatesAreSampled ==
  dup_out.called
  => \A i \in 1..Len(dup_out.ai_matches) :
       dup_out.ai_matches[i].claim_id
         \in RegIds(dup_out.prompt.processed_claims)

\* C27: the semantic pass sends at most 10 registry entries to the external
\* service: the first 10 in insertion order when the registry holds more
\* than 10, the whole registry otherwise.
C27_SampleIsFirstTen ==
  dup_out.called
  => LET sent == dup_out.prompt.processed_claims
         registry == dup_in.processed_claims
     IN /\ Len(sent) <= 10
        /\ Len(registry) <= 10 => sent = registry
        /\ Len(registry) > 10
             => /\ Len(sent) = 10
                /\ \A i \in 1..10 : sent[i] = registry[i]

\* a registry of more than 10 entries was sampled
C27_Witness ==
  /\ dup_out.called
  /\ Len(dup_in.processed_claims) > 10
  /\ Len(dup_out.prompt.processed_claims) = 10

\* the claim_ids the reply lists under "matching_claims", the name the
\* prompt asks for
PromptedIds(ai_text) ==
  IF ai_text.fenced /\ ai_text.valid
       /\ "matching_claims" \in DOMAIN ai_text.body
  THEN [i \in 1..Len(ai_text.body.matching_claims) |->
          ai_text.body.matching_claims[i].claim_id]
  ELSE <<>>

\* C30: when the external service answers in the structure the duplicate
\* prompt asks for, listing matching claims whose claim_ids are registry
\* keys, the semantic pass returns one ai_detected candidate for each
\* listed claim.
C30_PromptedReplyGivesCandidates ==
  LET listed == PromptedIds(dup_in.ai_text)
  IN ( /\ dup_out.called
       /\ listed # <<>>
       /\ \A i \in 1..Len(listed) :
            listed[i] \in RegIds(dup_in.processed_claims) )
     => /\ Len(dup_out.ai_matches) = Len(listed)
        /\ \A i \in 1..Len(listed) :
             /\ dup_out.ai_matches[i].claim_id = listed[i]
             /\ dup_out.ai_matches[i].match_type = "ai_detected"

====
